---- MODULE Spec2Model ----
(***************************************************************************)
(* A model of the signal scoring and strategy engine of the trading        *)
(* dashboard: the gamma exposure aggregator (extract_gamma_levels.py),     *)
(* the 9-signal scorer (agent/scorer.py) and the strategy mapper           *)
(* (agent/strategies.py).                                                  *)
(*                                                                         *)
(* Numbers.  The program computes in binary floating point; the model      *)
(* computes in exact integers on a fixed-point grid:                       *)
(*   - fractions of a weight (raw) and percentiles/ranks are in thousandths*)
(*   - the DTE multiplier is in thousandths (the code rounds it to 3       *)
(*     decimals)                                                           *)
(*   - 1/sqrt(dte) is floor(1000/sqrt(dte)) thousandths                    *)
(*   - gamma is in integer units, so that gamma*OI*100*spot^2*0.01 is the  *)
(*     integer (gamma*OI*100*spot*spot) \div 100                           *)
(* Python's None is the empty sequence <<>> and a present value v is <<v>>.*)
(***************************************************************************)
EXTENDS Integers, Sequences, FiniteSets, TLC

VARIABLES
    \* ---- gamma exposure aggregator (extract_gamma_levels.py) ----
    option_data,    \* the loaded list of contracts (run_extraction: contracts)
    cell_gex,       \* per ticker, the (strike, exp) -> net GEX table, in insertion order
    gamma_data,     \* compute_star_levels' result: ticker -> star levels
    gamma_pc,       \* "load" while contracts arrive, "done" once the levels are computed
    \* ---- scorer (agent/scorer.py, score_ticker) ----
    contracts,          \* score_ticker's contracts argument
    analytics,          \* its analytics argument: None/{} or <<[price, strikes]>>
    gamma_levels,       \* its gamma_levels argument: None/{} or <<record>>
    historical_context, \* its historical_context argument: None or <<dict>>
    today,              \* datetime.now().date(), as a day number
    dte_mult,           \* score_ticker's local dte_mult, in thousandths
    rec,                \* the returned Recommendation, None before the call
    score_pc,           \* "input", then "scored" (returned) or "raised" (exception)
    \* ---- strategy mapper (agent/strategies.py, get_strategy) ----
    strategy_key,       \* the (gex_regime, wall_position, skew_direction) looked up
    strategy,           \* the StrategyRecommendation returned, None before a lookup
    \* ---- batch scorer (agent/scorer.py, score_all_tickers) ----
    all_contracts,      \* its all_contracts argument
    analytics_data,     \* its analytics_data argument: ticker -> analytics entry
    levels_data,        \* its gamma_data argument: ticker -> gamma levels
    history_db,         \* what the historical DB answers, per ticker
    hist_ctx,           \* ticker -> the context _fetch_historical_context returned
    recommendations,    \* the returned list
    batch_pc,           \* "input", then "returned" or "raised"
    \* ---- backtester (agent/backtester.py, evaluate_recommendations) ----
    outcome_source,     \* "ok", or "fails" when get_recommendation_outcomes raises
    outcomes,           \* the list get_recommendation_outcomes returns
    result,             \* the returned report, None before the call
    backtest_pc,        \* "input", then "returned" or "raised"
    \* ---- historical queries (db/queries.py) ----
    gamma_levels_rows,  \* the rows of table gamma_levels
    snapshots_rows,     \* the rows of table snapshots
    query,              \* the call last made: its name and arguments
    returned,           \* the value it returned, in thousandths, None before a call
    executed,           \* the SQL statements it executed, in order
    \* ---- fetch cycle (continuous_fetcher.py, fetch_all_tickers) ----
    alerts_cfg,          \* cfg.alerts: enabled and its thresholds
    clock,               \* datetime.now(), as an hour number
    previous_gamma_data, \* the global _previous_gamma_data, None at start
    alerts,              \* the alerts of the cycle's run_all_checks
    alert_history,       \* the rows of table alert_history
    recommendation_log,  \* the rows of table recommendation_log
    cycle_pc,            \* "sleep", then "extracted", "checked", and "sleep" again
    cycles               \* the fetch cycles started so far

gammaVars == <<option_data, cell_gex, gamma_data, gamma_pc>>
scorerVars == <<contracts, analytics, gamma_levels, historical_context, today,
                dte_mult, rec, score_pc>>
strategyVars == <<strategy_key, strategy>>

batchVars == <<all_contracts, analytics_data, levels_data, history_db, hist_ctx,
               recommendations, batch_pc>>
backtestVars == <<outcome_source, outcomes, result, backtest_pc>>
queryVars == <<gamma_levels_rows, snapshots_rows, query, returned, executed>>
cycleVars == <<alerts_cfg, clock, previous_gamma_data, alerts, alert_history,
               recommendation_log, cycle_pc, cycles>>

\* The variables of the batch scorer, the backtester, the queries and the
\* fetch cycle.
laterVars == <<batchVars, backtestVars, queryVars, cycleVars>>

vars == <<gammaVars, scorerVars, strategyVars, laterVars>>

----------------------------------------------------------------------------
(* Bounds of the model *)

\* The longest list of contracts handed to compute_star_levels.
MaxContracts == 3

\* The longest list of contracts handed to score_ticker.
MaxChain == 2

----------------------------------------------------------------------------
(* Python values *)

None == <<>>
Some(v) == <<v>>

\* Python truthiness of an optional number: None and 0 are falsy.
Truthy(o) == o # None /\ o[1] # 0

Abs(x) == IF x < 0 THEN -x ELSE x
Min(a, b) == IF a < b THEN a ELSE b
Max(a, b) == IF a > b THEN a ELSE b

RECURSIVE SumSeq(_)
SumSeq(s) == IF s = <<>> THEN 0 ELSE Head(s) + SumSeq(Tail(s))

\* The elements of a sequence, as a set.
Range(s) == {s[i] : i \in DOMAIN s}

----------------------------------------------------------------------------
(* The parts a specification does not exercise rest in these states. *)

GammaIdle ==
    /\ option_data = <<>>
    /\ cell_gex = <<>>
    /\ gamma_data = <<>>
    /\ gamma_pc = "load"

ScorerIdle ==
    /\ contracts = <<>>
    /\ analytics = None
    /\ gamma_levels = None
    /\ historical_context = None
    /\ today = 0
    /\ dte_mult = 1000
    /\ rec = None
    /\ score_pc = "input"

StrategyIdle ==
    /\ strategy_key = <<"", "", "">>
    /\ strategy = None

BatchIdle ==
    /\ all_contracts = <<>>
    /\ analytics_data = <<>>
    /\ levels_data = <<>>
    /\ history_db = <<>>
    /\ hist_ctx = <<>>
    /\ recommendations = <<>>
    /\ batch_pc = "input"

BacktestIdle ==
    /\ outcome_source = "ok"
    /\ outcomes = <<>>
    /\ result = None
    /\ backtest_pc = "input"

QueryIdle ==
    /\ gamma_levels_rows = <<>>
    /\ snapshots_rows = <<>>
    /\ query = <<>>
    /\ returned = None
    /\ executed = <<>>

CycleIdle ==
    /\ alerts_cfg = [enabled |-> TRUE, gex_flip |-> TRUE,
                     new_max_gamma_strike |-> TRUE, price_near_gamma_wall_pct |-> 1]
    /\ clock = 0
    /\ previous_gamma_data = None
    /\ alerts = <<>>
    /\ alert_history = <<>>
    /\ recommendation_log = <<>>
    /\ cycle_pc = "sleep"
    /\ cycles = 0

LaterIdle == BatchIdle /\ BacktestIdle /\ QueryIdle /\ CycleIdle

----------------------------------------------------------------------------
(* Gamma exposure aggregator: extract_gamma_levels.py *)

\* A raw contract as compute_star_levels reads it.  A missing field reads as
\* its c.get default: "" for Symbol/Expiration/Type, 0 for the numbers.
OptionContract(sym, spot, strike, exp, gamma, oi, type) ==
    [Symbol |-> sym, UnderlyingPrice |-> spot, Strike |-> strike,
     Expiration |-> exp, Gamma |-> gamma, OpenInterest |-> oi, Type |-> type]

\* The contracts a fetch can deliver in this model.
OptionContracts ==
    \* ticker A at spot 2: both strikes, both types, two gammas
    { OptionContract("A", 2, k, "e1", g, 10, ty) :
          k \in {1, 2}, g \in {1, 2}, ty \in {"CALL", "PUT"} }
    \cup
    { OptionContract("A", 0,  1, "e1", 1, 10, "CALL"),   \* spot missing / zero
      OptionContract("A", -1, 1, "e1", 1, 10, "CALL"),   \* negative spot
      OptionContract("A", 3,  1, "e1", 1, 10, "PUT"),    \* another spot, same ticker
      OptionContract("A", 2,  1, "e2", 1, 10, "CALL"),   \* same strike, other expiration
      OptionContract("A", 2,  0, "e1", 1, 10, "CALL"),   \* strike missing
      OptionContract("A", 2,  1, "e1", 1, 10, ""),       \* type missing
      OptionContract("",  2,  1, "e1", 1, 10, "CALL"),   \* symbol missing
      OptionContract("B", 2,  2, "e1", 1, 10, "PUT"),    \* a second ticker
      OptionContract("B", 0,  1, "e1", 1, 10, "CALL") }

\* Lines 49-60: the contracts of one ticker that survive the grouping loop,
\* in input order.
by_ticker(cs, ticker) ==
    SelectSeq(cs, LAMBDA c : c.Symbol = ticker /\ c.UnderlyingPrice # 0)

\* The keys of by_ticker: a ticker appears once one of its contracts survives.
grouped_tickers(cs) ==
    { c.Symbol : c \in { x \in Range(cs) :
                            x.Symbol # "" /\ x.UnderlyingPrice # 0 } }

\* Line 59: the spot of the first surviving contract of the ticker.
ticker_prices(cs, ticker) == by_ticker(cs, ticker)[1].UnderlyingPrice

\* Line 81: exposure = gamma * oi * 100 * spot * spot * 0.01
exposure(gamma, oi, spot) == (gamma * oi * 100 * spot * spot) \div 100

\* Lines 83-89: calls positive, puts negative.
signed_net_unsigned(opt_type, e) == e
signed_net(opt_type, e) == IF opt_type = "CALL" THEN e ELSE -e

\* The position of a key in the insertion-ordered cell table, 0 if absent.
cell_index(cells, key) ==
    IF \E i \in DOMAIN cells : cells[i].key = key
    THEN CHOOSE i \in DOMAIN cells : cells[i].key = key
    ELSE 0

\* Lines 68-94: the cell table after the first n contracts of the ticker.
RECURSIVE build_cell_gex(_, _, _)
build_cell_gex(ticker_contracts, spot, n) ==
    IF n = 0 THEN <<>>
    ELSE LET prev == build_cell_gex(ticker_contracts, spot, n - 1)
             c    == ticker_contracts[n]
             key  == <<c.Strike, c.Expiration>>
             net  == signed_net(c.Type, exposure(c.Gamma, c.OpenInterest, spot))
             i    == cell_index(prev, key)
         IN  IF c.Strike = 0 THEN prev
             ELSE IF c.Type \notin {"CALL", "PUT"} THEN prev
             ELSE IF i = 0 THEN Append(prev, [key |-> key, gex |-> 0 + net])
             ELSE [prev EXCEPT ![i].gex = @ + net]

\* Lines 103-108: does this cell replace the current maximum positive one?
\* max_pos_gex starts at -inf (None here).
beats_pos_any_sign(gex, best) == best = None \/ gex > best[1]
beats_pos(gex, best) == gex > 0 /\ (best = None \/ gex > best[1])

beats_neg(gex, best) == gex < 0 /\ (best = None \/ gex < best[1])

\* Lines 96-108: the stars after the first n cells, in the table's order.
RECURSIVE find_stars(_, _)
find_stars(cells, n) ==
    IF n = 0
    THEN [max_pos_strike |-> None, max_pos_gex |-> None,
          max_neg_strike |-> None, max_neg_gex |-> None]
    ELSE LET prev   == find_stars(cells, n - 1)
             strike == cells[n].key[1]
             gex    == cells[n].gex
             p      == IF beats_pos(gex, prev.max_pos_gex)
                       THEN [prev EXCEPT !.max_pos_gex = Some(gex),
                                         !.max_pos_strike = Some(strike)]
                       ELSE prev
         IN  IF beats_neg(gex, p.max_neg_gex)
             THEN [p EXCEPT !.max_neg_gex = Some(gex),
                            !.max_neg_strike = Some(strike)]
             ELSE p

\* Lines 110-116: the result entry of one ticker.
star_levels(spot, cells) ==
    LET s == find_stars(cells, Len(cells))
    IN  [price |-> spot,
         max_positive_gamma_strike |-> s.max_pos_strike,
         max_positive_gamma_value  |->
             IF Truthy(s.max_pos_strike) THEN s.max_pos_gex[1] ELSE 0,
         max_negative_gamma_strike |-> s.max_neg_strike,
         max_negative_gamma_value  |->
             IF Truthy(s.max_neg_strike) THEN s.max_neg_gex[1] ELSE 0]

\* The cell table of one ticker (lines 64-94).
ticker_cell_gex(cs, ticker) ==
    LET tcs == by_ticker(cs, ticker)
    IN  build_cell_gex(tcs, ticker_prices(cs, ticker), Len(tcs))

\* compute_star_levels(contracts): ticker -> star levels.
compute_star_levels(cs) ==
    [t \in grouped_tickers(cs) |->
        star_levels(ticker_prices(cs, t), ticker_cell_gex(cs, t))]

GammaInit == GammaIdle /\ ScorerIdle /\ StrategyIdle /\ LaterIdle

\* One more contract of the option chain is loaded.
LoadContract ==
    /\ gamma_pc = "load"
    /\ Len(option_data) < MaxContracts
    /\ \E c \in OptionContracts : option_data' = Append(option_data, c)
    /\ UNCHANGED <<cell_gex, gamma_data, gamma_pc>>
    /\ UNCHANGED <<scorerVars, strategyVars, laterVars>>

\* run_extraction, step 2: gamma_data = compute_star_levels(contracts).
ComputeStarLevels ==
    /\ gamma_pc = "load"
    /\ cell_gex' = [t \in grouped_tickers(option_data) |->
                        ticker_cell_gex(option_data, t)]
    /\ gamma_data' = compute_star_levels(option_data)
    /\ gamma_pc' = "done"
    /\ UNCHANGED option_data
    /\ UNCHANGED <<scorerVars, strategyVars, laterVars>>

GammaNext == LoadContract \/ ComputeStarLevels

SpecGamma == GammaInit /\ [][GammaNext]_vars

----------------------------------------------------------------------------
(* Claims about the gamma exposure aggregator, checked under SpecGamma *)

\* The contracts of the input that name this ticker, cell and type.
CellContracts(t, key, type) ==
    SelectSeq(option_data, LAMBDA c :
        c.Symbol = t /\ <<c.Strike, c.Expiration>> = key /\ c.Type = type)

\* gamma x OI x 100 x spot^2 x 0.01 of one contract, at the contract's own spot.
ContractGex(c) ==
    (c.Gamma * c.OpenInterest * 100 * c.UnderlyingPrice * c.UnderlyingPrice) \div 100

RECURSIVE SumGex(_)
SumGex(cs) == IF cs = <<>> THEN 0 ELSE ContractGex(Head(cs)) + SumGex(Tail(cs))

\* The contracts of the ticker that carry a spot carry the same one
\* (the aggregator's input has "a shared underlying spot price").
SharedSpot(t) ==
    \A c1, c2 \in Range(option_data) :
        (c1.Symbol = t /\ c2.Symbol = t /\ c1.UnderlyingPrice # 0 /\ c2.UnderlyingPrice # 0)
            => c1.UnderlyingPrice = c2.UnderlyingPrice

\* The keys of the cells a ticker's priced CALL/PUT contracts fall into.
CellKeys(t) ==
    { <<c.Strike, c.Expiration>> : c \in { x \in Range(option_data) :
          x.Symbol = t /\ x.UnderlyingPrice # 0 /\ x.Strike # 0
          /\ x.Type \in {"CALL", "PUT"} } }

\* C4: in compute_star_levels every (strike, expiration) cell of a ticker holds
\* the sum of gamma x OI x 100 x spot^2 x 0.01 over the ticker's CALL contracts of
\* the cell minus the same sum over its PUT contracts; there is exactly one cell
\* per key; so a CALL and a PUT with identical gamma, OI and spot net to 0.
C4_CellNetGex ==
    gamma_pc = "done" =>
        \A t \in DOMAIN cell_gex :
            SharedSpot(t) =>
                /\ { cell_gex[t][i].key : i \in DOMAIN cell_gex[t] } = CellKeys(t)
                /\ \A i, j \in DOMAIN cell_gex[t] :
                       cell_gex[t][i].key = cell_gex[t][j].key => i = j
                /\ \A i \in DOMAIN cell_gex[t] :
                       cell_gex[t][i].gex =
                           SumGex(CellContracts(t, cell_gex[t][i].key, "CALL"))
                           - SumGex(CellContracts(t, cell_gex[t][i].key, "PUT"))

\* C4's case: a cell holding a CALL and a PUT with identical gamma, OI and
\* spot (and a third contract elsewhere) has been aggregated to 0.
C4_Witness ==
    /\ gamma_pc = "done"
    /\ \E t \in DOMAIN cell_gex : \E i \in DOMAIN cell_gex[t] :
          /\ SharedSpot(t)
          /\ cell_gex[t][i].gex = 0
          /\ Len(CellContracts(t, cell_gex[t][i].key, "CALL")) = 1
          /\ Len(CellContracts(t, cell_gex[t][i].key, "PUT")) = 1
          /\ ContractGex(CellContracts(t, cell_gex[t][i].key, "CALL")[1]) > 0
          /\ Len(cell_gex[t]) = 2

\* The net values of a ticker's cells that are strictly positive / negative.
PosCells(t) == { i \in DOMAIN cell_gex[t] : cell_gex[t][i].gex > 0 }
NegCells(t) == { i \in DOMAIN cell_gex[t] : cell_gex[t][i].gex < 0 }

\* C5: the call wall is the strike (and value) of a cell with the largest
\* strictly positive net GEX, the put wall that of a cell with the most negative
\* net GEX; without a positive (negative) cell the strike is null and the value 0.
C5_Walls ==
    gamma_pc = "done" =>
        \A t \in DOMAIN gamma_data :
            LET r == gamma_data[t]
                cells == cell_gex[t]
            IN  /\ IF PosCells(t) = {}
                   THEN r.max_positive_gamma_strike = None
                        /\ r.max_positive_gamma_value = 0
                   ELSE \E i \in PosCells(t) :
                          /\ \A j \in PosCells(t) : cells[j].gex <= cells[i].gex
                          /\ r.max_positive_gamma_strike = Some(cells[i].key[1])
                          /\ r.max_positive_gamma_value = cells[i].gex
                /\ IF NegCells(t) = {}
                   THEN r.max_negative_gamma_strike = None
                        /\ r.max_negative_gamma_value = 0
                   ELSE \E i \in NegCells(t) :
                          /\ \A j \in NegCells(t) : cells[j].gex >= cells[i].gex
                          /\ r.max_negative_gamma_strike = Some(cells[i].key[1])
                          /\ r.max_negative_gamma_value = cells[i].gex

\* C5's case: a ticker with two positive cells of different size, the larger
\* loaded last, and no negative cell.
C5_Witness ==
    /\ gamma_pc = "done"
    /\ \E t \in DOMAIN gamma_data :
          /\ Cardinality(PosCells(t)) = 2
          /\ cell_gex[t][1].gex < cell_gex[t][2].gex
          /\ NegCells(t) = {}
          /\ gamma_data[t].max_positive_gamma_strike = Some(cell_gex[t][2].key[1])
          /\ gamma_data[t].max_negative_gamma_strike = None

\* Every contract of the input carries the same positive spot.
WellFormedSpots ==
    \A c1, c2 \in Range(option_data) :
        c1.UnderlyingPrice > 0 /\ c1.UnderlyingPrice = c2.UnderlyingPrice

\* C6: when two cells tie exactly for the extremum, the wall is the lower of
\* the tied strikes, whatever the order of the contracts (stated here for
\* inputs whose contracts all carry one positive spot).
C6_TieLowestStrike ==
    (gamma_pc = "done" /\ WellFormedSpots) =>
        \A t \in DOMAIN gamma_data :
            LET cells == cell_gex[t]
                maxPos == { i \in PosCells(t) :
                              \A j \in PosCells(t) : cells[j].gex <= cells[i].gex }
                maxNeg == { i \in NegCells(t) :
                              \A j \in NegCells(t) : cells[j].gex >= cells[i].gex }
            IN  /\ maxPos # {} =>
                      \A i \in maxPos :
                          gamma_data[t].max_positive_gamma_strike[1] <= cells[i].key[1]
                /\ maxNeg # {} =>
                      \A i \in maxNeg :
                          gamma_data[t].max_negative_gamma_strike[1] <= cells[i].key[1]

\* C7: a contract whose spot is <= 0 contributes to no cell and no wall (the
\* output is that of the input without such contracts), and a ticker all of
\* whose contracts have spot <= 0 is not in the output.
C7_NonPositiveSpotExcluded ==
    gamma_pc = "done" =>
        /\ gamma_data = compute_star_levels(
               SelectSeq(option_data, LAMBDA c : c.UnderlyingPrice > 0))
        /\ \A t \in DOMAIN gamma_data :
               \E c \in Range(option_data) : c.Symbol = t /\ c.UnderlyingPrice > 0

----------------------------------------------------------------------------
(* Scorer: agent/scorer.py *)

\* Lines 31-41: signal weights (must sum to 100).
WEIGHTS ==
    [gex_regime |-> 20, wall_proximity |-> 15, pc_skew |-> 12,
     volume_oi_surge |-> 12, directional_bias |-> 10, iv_rank |-> 10,
     gex_momentum |-> 8, skew_momentum |-> 5, dte_conviction |-> 8]

\* Lines 45-50: SignalScore(name, score, max_score, detail).  The detail is the
\* phrase of the formatted text that later code searches for.
SignalScore(name, score, max_score, detail) ==
    [name |-> name, score |-> score, max_score |-> max_score, detail |-> detail]

\* int(x) of the fraction n/d, d > 0: truncation toward zero.
IntTrunc(n, d) == IF n >= 0 THEN n \div d ELSE -((-n) \div d)

\* score = int(raw * max_weight), raw given in ten-thousandths.
int_score_floor_plus_one(raw, max_weight) == IntTrunc(raw * max_weight, 10000) + 1
int_score(raw, max_weight) == IntTrunc(raw * max_weight, 10000)

\* round(mult, 3) rounds the double mult, which differs from the decimal value
\* n/d by its representation error: where n/d is an exact tie (a 5 in the
\* fourth decimal) the result goes by the side of the tie the double lies on.
\* above_tie tells that side; everywhere else the result is the nearest
\* thousandth.
RoundDiv(n, d, above_tie) ==
    IF (2 * n) % (2 * d) = d /\ ~above_tie THEN n \div d
    ELSE (2 * n + d) \div (2 * d)

\* dict.get(key, default) on a dict modelled as a function of its keys.
dict_get(d, key, default) == IF key \in DOMAIN d THEN d[key] ELSE default

\* datetime.strptime(exp_str[:10], '%Y-%m-%d').date() as a day number; any
\* other non-empty text raises ValueError.
ExpirationDates ==
    [x \in {"2026-01-01", "2026-01-02", "2026-01-04", "2026-01-07", "2026-01-08",
            "2026-01-20", "2026-01-30", "2026-01-31", "2026-03-01", "2026-04-10",
            "2026-05-10", "2026-07-19"} |->
        CASE x = "2026-01-01" -> 1   [] x = "2026-01-02" -> 2
          [] x = "2026-01-04" -> 4   [] x = "2026-01-07" -> 7
          [] x = "2026-01-08" -> 8   [] x = "2026-01-20" -> 20
          [] x = "2026-01-30" -> 30  [] x = "2026-01-31" -> 31
          [] x = "2026-03-01" -> 60  [] x = "2026-04-10" -> 100
          [] x = "2026-05-10" -> 130 [] x = "2026-07-19" -> 200]

strptime_ok(exp_str) == exp_str \in DOMAIN ExpirationDates

\* Lines 101-109: days to expiration of a contract in _compute_dte_weight.
dte_default_one(exp_str, day) ==
    IF exp_str # "" /\ strptime_ok(exp_str)
    THEN Max(ExpirationDates[exp_str] - day, 1)
    ELSE 1
contract_dte(exp_str, day) ==
    IF exp_str # ""
    THEN IF strptime_ok(exp_str)
         THEN Max(ExpirationDates[exp_str] - day, 1)
         ELSE 30
    ELSE 30

\* lo <= strike <= hi for lo, hi = price * (lo_pct/100), price * (hi_pct/100).
in_window(strike, price, lo_pct, hi_pct) ==
    lo_pct * price <= 100 * strike /\ 100 * strike <= hi_pct * price

\* The averages avg_dte = num/den (in lowest terms) at which lines 119-127
\* compute a double above an exact tie, so that round(mult, 3) goes up; at
\* every other tie the double lies below.  The table covers the averages of up
\* to three of the contracts of ChainContracts and DteContracts.
DoubleAboveTie ==
    { <<56, 3>>, <<61, 2>>, <<63, 2>>, <<65, 2>>, <<67, 2>>, <<75, 2>>, <<77, 2>>,
      <<81, 2>>, <<83, 2>>, <<85, 2>>, <<115, 2>>, <<129, 2>>, <<131, 2>>,
      <<157, 2>>, <<161, 2>>, <<169, 2>>, <<177, 2>>, <<179, 2>>, <<183, 2>>,
      <<185, 2>>, <<207, 2>>, <<215, 2>>, <<219, 2>>, <<227, 2>>, <<229, 2>>,
      <<231, 2>> }

double_above_tie(weighted_dte, total_oi) ==
    \E a \in DoubleAboveTie : weighted_dte * a[2] = total_oi * a[1]

\* Lines 119-129: the multiplier for avg_dte = weighted_dte / total_oi,
\* rounded to 3 decimals, in thousandths.
dte_curve_rising_tail(weighted_dte, total_oi) ==
    LET up == double_above_tie(weighted_dte, total_oi)
    IN  IF weighted_dte <= total_oi THEN 1500
        ELSE IF weighted_dte <= 7 * total_oi
        THEN RoundDiv(1500 * total_oi - 50 * (weighted_dte - total_oi), total_oi, up)
        ELSE IF weighted_dte <= 30 * total_oi
        THEN RoundDiv(12000 * total_oi - 87 * (weighted_dte - 7 * total_oi),
                      10 * total_oi, up)
        ELSE RoundDiv(1000 * total_oi + 5 * (weighted_dte - 30 * total_oi),
                      total_oi, up)
dte_curve(weighted_dte, total_oi) ==
    LET up == double_above_tie(weighted_dte, total_oi)
    IN  IF weighted_dte <= total_oi THEN 1500
        ELSE IF weighted_dte <= 7 * total_oi
        THEN RoundDiv(1500 * total_oi - 50 * (weighted_dte - total_oi), total_oi, up)
        ELSE IF weighted_dte <= 30 * total_oi
        THEN RoundDiv(12000 * total_oi - 87 * (weighted_dte - 7 * total_oi),
                      10 * total_oi, up)
        ELSE RoundDiv(Max(500 * total_oi,
                          1000 * total_oi - 5 * (weighted_dte - 30 * total_oi)),
                      total_oi, up)

\* Lines 93-112: the contracts _compute_dte_weight counts: in the +-5% window
\* with open interest > 0.
dte_counted(cs, price) ==
    SelectSeq(cs, LAMBDA c : in_window(c.Strike, price, 95, 105) /\ c.OpenInterest > 0)

dte_weighted_sum(cs, price, day) ==
    LET q == dte_counted(cs, price)
    IN  SumSeq([i \in DOMAIN q |-> contract_dte(q[i].Expiration, day) * q[i].OpenInterest])

dte_total_oi(cs, price) ==
    LET q == dte_counted(cs, price)
    IN  SumSeq([i \in DOMAIN q |-> q[i].OpenInterest])

\* Lines 75-129: _compute_dte_weight(contracts, price), in thousandths.
compute_dte_weight(cs, price, day) ==
    IF cs = <<>> \/ price <= 0 THEN 1000
    ELSE IF dte_total_oi(cs, price) = 0 THEN 1000
    ELSE dte_curve(dte_weighted_sum(cs, price, day), dte_total_oi(cs, price))

\* Lines 135-159: _score_gex_regime.  percentile is None or <<thousandths>>;
\* raw = min(1.0, 0.2 + |percentile - 0.5| * 2 * 0.8).
score_gex_regime(net_gex, percentile, max_weight) ==
    IF net_gex = 0
    THEN SignalScore("GEX Regime", 0, max_weight, "No GEX data available")
    ELSE LET raw == Min(10000, 2000 + 16 * Abs(percentile[1] - 500))
         IN  SignalScore("GEX Regime", int_score(raw, max_weight), max_weight,
                         IF net_gex > 0 THEN "POSITIVE (mean-reversion)"
                                        ELSE "NEGATIVE (trending)")

\* Lines 175-188: best_dist_pct as the pair <<|price - strike|, price>> (the
\* distance is 100 * the quotient), <<1, 1>> for the initial 100.0.
wall_dist(price, strike, best) ==
    IF Truthy(strike) /\ strike[1] > 0
       /\ Abs(price - strike[1]) * best[2] < best[1] * price
    THEN <<Abs(price - strike[1]), price>>
    ELSE best

\* Lines 162-205: _score_wall_proximity.
score_wall_proximity(price, pos_strike, neg_strike, max_weight) ==
    IF price <= 0 THEN SignalScore("Wall Proximity", 0, max_weight, "No price data")
    ELSE LET d == wall_dist(price, neg_strike, wall_dist(price, pos_strike, <<1, 1>>))
             \* 100 * d[1] / d[2] <= x/10 percent
             within(x) == 1000 * d[1] <= x * d[2]
             raw == IF within(5) THEN 10000
                    ELSE IF within(10) THEN 8500
                    ELSE IF within(20) THEN 6500
                    ELSE IF within(50) THEN 4000
                    ELSE 1500
         IN  SignalScore("Wall Proximity", int_score(raw, max_weight), max_weight,
                         "distance from wall")

----------------------------------------------------------------------------
(* Strategy mapper: agent/strategies.py *)

\* Lines 10-16: StrategyRecommendation(play_type, direction, description, risk_profile).
StrategyRecommendation(play_type, direction, description, risk_profile) ==
    [play_type |-> play_type, direction |-> direction,
     description |-> description, risk_profile |-> risk_profile]

\* Lines 25-105: the lookup table, keyed by (gex_regime, wall_position, skew_direction).
\* (The descriptions' em dashes are written as hyphens.)
STRATEGY_MAP ==
       (<<"positive", "near_call_wall", "bullish">> :>
            StrategyRecommendation("Bear Call Spread", "BEARISH",
                "Price at call wall resistance in mean-reversion regime - fade the rally",
                "Defined Risk"))
    @@ (<<"positive", "near_call_wall", "bearish">> :>
            StrategyRecommendation("Bear Call Spread", "BEARISH",
                "Bearish skew + call wall resistance - high-probability fade",
                "Defined Risk"))
    @@ (<<"positive", "near_call_wall", "neutral">> :>
            StrategyRecommendation("Iron Condor", "NEUTRAL",
                "Neutral skew at resistance - sell both sides, gamma supports range",
                "Defined Risk"))
    @@ (<<"positive", "near_put_wall", "bullish">> :>
            StrategyRecommendation("Bull Call Spread", "BULLISH",
                "Bullish skew at put wall support - buy the bounce",
                "Defined Risk"))
    @@ (<<"positive", "near_put_wall", "bearish">> :>
            StrategyRecommendation("Bull Put Spread", "BULLISH",
                "Put wall support in positive GEX - sell puts for premium with floor",
                "Defined Risk"))
    @@ (<<"positive", "near_put_wall", "neutral">> :>
            StrategyRecommendation("Bull Put Spread", "BULLISH",
                "Support level in mean-reversion - sell premium into support",
                "Defined Risk"))
    @@ (<<"positive", "mid_range", "bullish">> :>
            StrategyRecommendation("Iron Condor", "NEUTRAL",
                "Positive GEX mid-range - range-bound, sell premium both sides",
                "Defined Risk"))
    @@ (<<"positive", "mid_range", "bearish">> :>
            StrategyRecommendation("Iron Condor", "NEUTRAL",
                "Positive GEX keeps price pinned - sell premium into the range",
                "Defined Risk"))
    @@ (<<"positive", "mid_range", "neutral">> :>
            StrategyRecommendation("Iron Condor", "NEUTRAL",
                "Perfect mean-reversion setup - sell iron condor around current price",
                "Defined Risk"))
    @@ (<<"negative", "near_call_wall", "bullish">> :>
            StrategyRecommendation("Bull Call Spread", "BULLISH",
                "Negative GEX + bullish flow + near resistance - breakout potential",
                "Defined Risk"))
    @@ (<<"negative", "near_call_wall", "bearish">> :>
            StrategyRecommendation("Bear Put Spread", "BEARISH",
                "Bearish skew at resistance in volatile regime - rejection likely",
                "Defined Risk"))
    @@ (<<"negative", "near_call_wall", "neutral">> :>
            StrategyRecommendation("Long Straddle", "NEUTRAL",
                "Negative GEX at key level - expect big move in either direction",
                "Defined Risk"))
    @@ (<<"negative", "near_put_wall", "bullish">> :>
            StrategyRecommendation("Bull Call Spread", "BULLISH",
                "Bullish positioning at put support in trend regime - bounce play",
                "Defined Risk"))
    @@ (<<"negative", "near_put_wall", "bearish">> :>
            StrategyRecommendation("Bear Put Spread", "BEARISH",
                "Negative GEX + bearish flow at put wall - breakdown expected",
                "Defined Risk"))
    @@ (<<"negative", "near_put_wall", "neutral">> :>
            StrategyRecommendation("Long Straddle", "NEUTRAL",
                "Negative GEX at support - breakout or bounce, buy both sides",
                "Defined Risk"))
    @@ (<<"negative", "mid_range", "bullish">> :>
            StrategyRecommendation("Bull Call Spread", "BULLISH",
                "Negative GEX trend regime + bullish skew - ride the momentum up",
                "Defined Risk"))
    @@ (<<"negative", "mid_range", "bearish">> :>
            StrategyRecommendation("Bear Put Spread", "BEARISH",
                "Negative GEX + bearish skew - ride the momentum down",
                "Defined Risk"))
    @@ (<<"negative", "mid_range", "neutral">> :>
            StrategyRecommendation("Long Straddle", "NEUTRAL",
                "High volatility regime with no directional conviction - play the vol",
                "Defined Risk"))

\* Lines 122-128: the fallback when the key is not in the table.
FallbackStrategy ==
    StrategyRecommendation("Iron Condor", "NEUTRAL",
        "Insufficient signal clarity - consider neutral premium selling",
        "Defined Risk")

\* Lines 108-130: get_strategy.
get_strategy_always_table(gex_regime, wall_position, skew_direction) ==
    STRATEGY_MAP[<<gex_regime, wall_position, skew_direction>>]
get_strategy_no_negative(gex_regime, wall_position, skew_direction) ==
    LET key == <<gex_regime, wall_position, skew_direction>>
    IN  IF key \in DOMAIN STRATEGY_MAP /\ gex_regime # "negative"
        THEN STRATEGY_MAP[key] ELSE FallbackStrategy
get_strategy(gex_regime, wall_position, skew_direction) ==
    LET key == <<gex_regime, wall_position, skew_direction>>
    IN  IF key \in DOMAIN STRATEGY_MAP THEN STRATEGY_MAP[key] ELSE FallbackStrategy

----------------------------------------------------------------------------
(* Scorer, continued: the contract-based and history-based sub-scorers *)

\* 1.0 / math.sqrt(dte) in thousandths: floor(1000 / sqrt(dte)).
\* The largest w in lo..hi with w * w <= n (bisection).
RECURSIVE isqrt_between(_, _, _)
isqrt_between(n, lo, hi) ==
    IF lo >= hi THEN lo
    ELSE LET mid == (lo + hi + 1) \div 2
         IN  IF mid * mid <= n THEN isqrt_between(n, mid, hi)
                               ELSE isqrt_between(n, lo, mid - 1)

inv_sqrt(d) == isqrt_between(1000000 \div d, 0, 1000)

\* Lines 232-240 and 296-304: dte_w, in thousandths.  It stays 1.0 when the
\* expiration is missing or does not parse.
dte_w_default_30(exp_str, day) ==
    IF exp_str # "" /\ strptime_ok(exp_str)
    THEN inv_sqrt(Max(ExpirationDates[exp_str] - day, 1))
    ELSE inv_sqrt(30)
dte_w(exp_str, day) ==
    IF exp_str # ""
    THEN IF strptime_ok(exp_str)
         THEN inv_sqrt(Max(ExpirationDates[exp_str] - day, 1))
         ELSE 1000
    ELSE 1000

\* The contracts of the +-5% window, in input order.
atm_window(cs, price) == SelectSeq(cs, LAMBDA c : in_window(c.Strike, price, 95, 105))

\* Lines 225-246: DTE-weighted open interest of one type in the window.
weighted_oi(cs, price, day, type) ==
    LET q == SelectSeq(atm_window(cs, price), LAMBDA c : c.Type = type)
    IN  SumSeq([i \in DOMAIN q |-> q[i].OpenInterest * dte_w(q[i].Expiration, day)])

\* put / call as the pair <<numerator, denominator>>; 999 without call OI.
ratio_of(put_oi, call_oi) == IF call_oi > 0 THEN <<put_oi, call_oi>> ELSE <<999, 1>>

\* ratio > x/100 and ratio < x/100, for a ratio <<n, d>> with d > 0.
ratio_gt(r, x) == 100 * r[1] > x * r[2]
ratio_lt(r, x) == 100 * r[1] < x * r[2]

\* Lines 253-260: raw of the P/C ratio, in ten-thousandths.
pc_raw(r) ==
    IF ratio_gt(r, 200) \/ ratio_lt(r, 50) THEN 10000
    ELSE IF ratio_gt(r, 150) \/ ratio_lt(r, 67) THEN 7500
    ELSE IF ratio_gt(r, 120) \/ ratio_lt(r, 83) THEN 5000
    ELSE 2500

\* Line 262: skew_dir.
skew_dir(r) ==
    IF ratio_gt(r, 120) THEN "PUT-heavy (bearish)"
    ELSE IF ratio_lt(r, 83) THEN "CALL-heavy (bullish)"
    ELSE "balanced"

\* Lines 208-268: _score_pc_skew.
score_pc_skew(cs, price, day, max_weight) ==
    IF cs = <<>> \/ price <= 0
    THEN SignalScore("P/C Skew", 0, max_weight, "No contract data")
    ELSE LET call_oi == weighted_oi(cs, price, day, "CALL")
             put_oi  == weighted_oi(cs, price, day, "PUT")
             pc_ratio == ratio_of(put_oi, call_oi)
         IN  IF call_oi = 0 /\ put_oi = 0
             THEN SignalScore("P/C Skew", 0, max_weight, "No ATM OI data")
             ELSE SignalScore("P/C Skew", int_score(pc_raw(pc_ratio), max_weight),
                              max_weight, skew_dir(pc_ratio))

\* Lines 289-307: DTE-weighted volume and open interest in the window.
weighted_total(cs, price, day, field) ==
    LET q == atm_window(cs, price)
    IN  SumSeq([i \in DOMAIN q |-> q[i][field] * dte_w(q[i].Expiration, day)])

\* Lines 271-331: _score_volume_oi_surge.
score_volume_oi_surge(cs, price, day, max_weight) ==
    IF cs = <<>> \/ price <= 0
    THEN SignalScore("Vol/OI Surge", 0, max_weight, "No contract data")
    ELSE LET total_vol == weighted_total(cs, price, day, "Volume")
             total_oi  == weighted_total(cs, price, day, "OpenInterest")
             r   == IF total_oi > 0 THEN <<total_vol, total_oi>> ELSE <<0, 1>>
             raw == IF ratio_gt(r, 100) THEN 10000
                    ELSE IF ratio_gt(r, 50) THEN 7500
                    ELSE IF ratio_gt(r, 25) THEN 5000
                    ELSE IF ratio_gt(r, 10) THEN 3000
                    ELSE 1000
         IN  SignalScore("Vol/OI Surge", int_score(raw, max_weight), max_weight,
                         "Vol/OI ratio")

\* Lines 346-348: raw of the IV rank, in ten-thousandths:
\* 0.1 + |iv_rank - 0.5| * 2 * 0.9.
iv_raw_capped(iv) == Min(10000, 1000 + 18 * Abs(iv - 500))
iv_raw(iv) == 1000 + 18 * Abs(iv - 500)

\* Lines 334-361: _score_iv_rank.  iv_rank is None or <<thousandths>>.
score_iv_rank(iv_rank, max_weight) ==
    IF iv_rank = None
    THEN SignalScore("IV Rank", 0, max_weight, "No IV data available")
    ELSE SignalScore("IV Rank", int_score(iv_raw(iv_rank[1]), max_weight), max_weight,
                     IF iv_rank[1] >= 800 THEN "HIGH"
                     ELSE IF iv_rank[1] >= 500 THEN "ELEVATED"
                     ELSE IF iv_rank[1] >= 200 THEN "LOW"
                     ELSE "VERY LOW")

\* Lines 377-380: net delta over the strikes within +-10% of the price.
RECURSIVE net_delta_of(_, _, _)
net_delta_of(strikes, keys, price) ==
    IF keys = {} THEN 0
    ELSE LET k == CHOOSE x \in keys : TRUE
         IN  (IF in_window(k, price, 90, 110) THEN strikes[k].total_delta ELSE 0)
             + net_delta_of(strikes, keys \ {k}, price)

\* Lines 364-401: _score_directional_bias.  an is None/{} or <<[price, strikes]>>.
score_directional_bias(an, price, max_weight) ==
    IF an = None \/ price <= 0
    THEN SignalScore("Directional Bias", 0, max_weight, "No analytics data")
    ELSE IF DOMAIN an[1].strikes = {}
    THEN SignalScore("Directional Bias", 0, max_weight, "No analytics data")
    ELSE LET net_delta == net_delta_of(an[1].strikes, DOMAIN an[1].strikes, price)
             abs_delta == Abs(net_delta)
             raw == IF abs_delta > 500000 THEN 10000
                    ELSE IF abs_delta > 100000 THEN 7500
                    ELSE IF abs_delta > 25000 THEN 5000
                    ELSE IF abs_delta > 5000 THEN 3000
                    ELSE 1000
         IN  SignalScore("Directional Bias", int_score(raw, max_weight), max_weight,
                         IF net_delta > 0 THEN "BULLISH dealer positioning"
                         ELSE IF net_delta < 0 THEN "BEARISH dealer positioning"
                         ELSE "FLAT dealer positioning")

\* Lines 404-434: _score_gex_momentum.  momentum is a dict; gex_trend is in
\* thousandths.
score_gex_momentum(momentum, max_weight) ==
    IF DOMAIN momentum = {} \/ dict_get(momentum, "gex_samples", 0) < 2
    THEN SignalScore("GEX Momentum", 0, max_weight, "Insufficient history")
    ELSE LET trend == dict_get(momentum, "gex_trend", 0)
             abs_trend == Abs(trend)
             raw == IF abs_trend > 500 THEN 10000
                    ELSE IF abs_trend > 250 THEN 7000
                    ELSE IF abs_trend > 100 THEN 4000
                    ELSE 1500
         IN  SignalScore("GEX Momentum", int_score(raw, max_weight), max_weight,
                         IF trend > 50 THEN "RISING"
                         ELSE IF trend < -50 THEN "FALLING" ELSE "FLAT")

\* Lines 454-462: unweighted open interest of one type in the window.
plain_oi(cs, price, type) ==
    LET q == SelectSeq(atm_window(cs, price), LAMBDA c : c.Type = type)
    IN  SumSeq([i \in DOMAIN q |-> q[i].OpenInterest])

\* Lines 437-494: _score_skew_momentum.  previous_pc_ratio is None or
\* <<hundredths>>.
score_skew_momentum(cs, price, previous_pc_ratio, max_weight) ==
    IF cs = <<>> \/ price <= 0
    THEN SignalScore("Skew Momentum", 0, max_weight, "No contract data")
    ELSE LET call_oi == plain_oi(cs, price, "CALL")
             put_oi  == plain_oi(cs, price, "PUT")
             cur     == ratio_of(put_oi, call_oi)
         IN  IF call_oi = 0 /\ put_oi = 0
             THEN SignalScore("Skew Momentum", 0, max_weight, "No ATM OI")
             ELSE IF previous_pc_ratio = None \/ previous_pc_ratio[1] <= 0
             THEN SignalScore("Skew Momentum", int_score(2000, max_weight), max_weight,
                              "no history for trend")
             ELSE LET prev == previous_pc_ratio[1]
                      \* change = num / den
                      num == 100 * cur[1] - prev * cur[2]
                      den == prev * cur[2]
                      gt(x) == 100 * Abs(num) > x * den
                      raw == IF gt(30) THEN 10000
                             ELSE IF gt(15) THEN 7000
                             ELSE IF gt(5) THEN 4000
                             ELSE 1500
                  IN  SignalScore("Skew Momentum", int_score(raw, max_weight), max_weight,
                                  IF 100 * num > 5 * den THEN "PUTS increasing"
                                  ELSE IF 100 * num < -5 * den THEN "CALLS increasing"
                                  ELSE "Stable")

\* Lines 497-522: _score_dte_conviction; the multiplier is in thousandths.
score_dte_conviction(mult, max_weight) ==
    LET raw == IF mult >= 1400 THEN 10000
               ELSE IF mult >= 1200 THEN 7500
               ELSE IF mult >= 1000 THEN 4500
               ELSE IF mult >= 700 THEN 2500
               ELSE 1000
    IN  SignalScore("DTE Conviction", int_score(raw, max_weight), max_weight,
                    IF mult >= 1400 THEN "Very heavy 0-2 DTE positioning"
                    ELSE IF mult >= 1200 THEN "Elevated near-term activity"
                    ELSE IF mult >= 1000 THEN "Standard DTE distribution"
                    ELSE IF mult >= 700 THEN "Longer-dated positioning"
                    ELSE "Far-dated positioning")

----------------------------------------------------------------------------
(* Scorer: score_ticker *)

\* Lines 545-560: the values score_ticker reads from its arguments.
arg_price(an) == IF an = None THEN 0 ELSE an[1].price
arg_pos_strike(gl) == IF gl = None THEN None ELSE gl[1].max_positive_gamma_strike
arg_neg_strike(gl) == IF gl = None THEN None ELSE gl[1].max_negative_gamma_strike
arg_net_gex(gl) ==
    IF gl = None THEN 0
    ELSE gl[1].max_positive_gamma_value + gl[1].max_negative_gamma_value
arg_context(hc) == IF hc = None THEN <<>> ELSE hc[1]
arg_gex_percentile(hc) == dict_get(arg_context(hc), "gex_percentile", Some(500))
arg_momentum(hc) == dict_get(arg_context(hc), "momentum", <<>>)
arg_iv_rank_no_default(hc) == dict_get(arg_context(hc), "iv_rank", None)
arg_iv_rank(hc) == dict_get(arg_context(hc), "iv_rank", Some(500))
arg_prev_pc(hc) == dict_get(arg_context(hc), "previous_pc_ratio", None)

\* Lines 565-576: all_signals = [s1, ..., s9].
all_signals_swapped_weights(cs, an, gl, hc, day) ==
    LET price == arg_price(an)
        mult  == compute_dte_weight(cs, price, day)
    IN  << score_gex_regime(arg_net_gex(gl), arg_gex_percentile(hc), WEIGHTS.gex_regime),
           score_wall_proximity(price, arg_pos_strike(gl), arg_neg_strike(gl),
                                WEIGHTS.wall_proximity),
           score_pc_skew(cs, price, day, WEIGHTS.pc_skew),
           score_volume_oi_surge(cs, price, day, WEIGHTS.volume_oi_surge),
           score_iv_rank(arg_iv_rank(hc), WEIGHTS.iv_rank),
           score_directional_bias(an, price, WEIGHTS.directional_bias),
           score_gex_momentum(arg_momentum(hc), WEIGHTS.skew_momentum),
           score_skew_momentum(cs, price, arg_prev_pc(hc), WEIGHTS.gex_momentum),
           score_dte_conviction(mult, WEIGHTS.dte_conviction) >>
all_signals(cs, an, gl, hc, day) ==
    LET price == arg_price(an)
        mult  == compute_dte_weight(cs, price, day)
    IN  << score_gex_regime(arg_net_gex(gl), arg_gex_percentile(hc), WEIGHTS.gex_regime),
           score_wall_proximity(price, arg_pos_strike(gl), arg_neg_strike(gl),
                                WEIGHTS.wall_proximity),
           score_pc_skew(cs, price, day, WEIGHTS.pc_skew),
           score_volume_oi_surge(cs, price, day, WEIGHTS.volume_oi_surge),
           score_iv_rank(arg_iv_rank(hc), WEIGHTS.iv_rank),
           score_directional_bias(an, price, WEIGHTS.directional_bias),
           score_gex_momentum(arg_momentum(hc), WEIGHTS.gex_momentum),
           score_skew_momentum(cs, price, arg_prev_pc(hc), WEIGHTS.skew_momentum),
           score_dte_conviction(mult, WEIGHTS.dte_conviction) >>

\* Lines 577-578: total_score = max(0, min(100, sum of the scores)).
total_score_unclamped(signals) == SumSeq([i \in DOMAIN signals |-> signals[i].score])
total_score_skips_last(signals) ==
    Max(0, Min(100, SumSeq([i \in 1..(Len(signals) - 1) |-> signals[i].score])))
total_score(signals) ==
    Max(0, Min(100, SumSeq([i \in DOMAIN signals |-> signals[i].score])))

\* Line 581.
gex_regime_of(net_gex) == IF net_gex >= 0 THEN "positive" ELSE "negative"

\* Lines 583-588.
near_wall(price, strike) ==
    price > 0 /\ Truthy(strike) /\ 100 * Abs(price - strike[1]) <= 3 * price

wall_position_put_first(price, pos_strike, neg_strike) ==
    IF near_wall(price, neg_strike) THEN "near_put_wall"
    ELSE IF near_wall(price, pos_strike) THEN "near_call_wall"
    ELSE "mid_range"
wall_position_of(price, pos_strike, neg_strike) ==
    IF near_wall(price, pos_strike) THEN "near_call_wall"
    ELSE IF near_wall(price, neg_strike) THEN "near_put_wall"
    ELSE "mid_range"

\* Lines 590-597: the skew read back from the two detail texts.
skew_of_bullish_first(pc_detail, delta_detail) ==
    IF pc_detail = "CALL-heavy (bullish)" \/ delta_detail = "BULLISH dealer positioning"
    THEN "bullish"
    ELSE IF pc_detail = "PUT-heavy (bearish)" \/ delta_detail = "BEARISH dealer positioning"
    THEN "bearish"
    ELSE "neutral"
skew_of(pc_detail, delta_detail) ==
    IF pc_detail = "PUT-heavy (bearish)" \/ delta_detail = "BEARISH dealer positioning"
    THEN "bearish"
    ELSE IF pc_detail = "CALL-heavy (bullish)" \/ delta_detail = "BULLISH dealer positioning"
    THEN "bullish"
    ELSE "neutral"

\* Line 602: the position of the best remaining signal of a stable descending
\* sort by score (ties keep the signal order).
best_index(signals, taken) ==
    CHOOSE i \in DOMAIN signals \ taken :
        \A j \in DOMAIN signals \ taken :
            signals[j].score < signals[i].score
            \/ (signals[j].score = signals[i].score /\ i <= j)

\* Lines 602-603: the names of top_signals[:3].
top_signals(signals) ==
    LET i1 == best_index(signals, {})
        i2 == best_index(signals, {i1})
        i3 == best_index(signals, {i1, i2})
    IN  <<signals[i1].name, signals[i2].name, signals[i3].name>>

\* Lines 606-618: risk_parts, as the list of the conditions that fired.
risk_parts(gex_regime, wall_position, pc_detail, total, iv_rank) ==
    (IF gex_regime = "negative" THEN <<"negative GEX">> ELSE <<>>)
    \o (IF wall_position = "mid_range" THEN <<"no nearby wall">> ELSE <<>>)
    \o (IF pc_detail = "balanced" THEN <<"balanced skew">> ELSE <<>>)
    \o (IF total < 40 THEN <<"low signal strength">> ELSE <<>>)
    \o (IF iv_rank[1] > 800 THEN <<"IV elevated">> ELSE <<>>)

\* Line 566 raises TypeError (abs(None - 0.5)) when the percentile is None and
\* the net GEX is not 0.
raises_in_gex_regime(gl, hc) ==
    arg_net_gex(gl) # 0 /\ arg_gex_percentile(hc) = None

\* Line 616 raises TypeError (None > 0.8) when the IV rank is None.
raises_in_risk_notes(hc) == arg_iv_rank(hc) = None

score_ticker_raises(gl, hc) == raises_in_gex_regime(gl, hc) \/ raises_in_risk_notes(hc)

\* Lines 580-599: the key score_ticker hands to get_strategy, from its signals.
strategy_key_of(signals, an, gl) ==
    << gex_regime_of(arg_net_gex(gl)),
       wall_position_of(arg_price(an), arg_pos_strike(gl), arg_neg_strike(gl)),
       skew_of(signals[3].detail, signals[6].detail) >>

strategy_inputs(cs, an, gl, hc, day) ==
    strategy_key_of(all_signals(cs, an, gl, hc, day), an, gl)

\* Lines 528-632: score_ticker, when it returns.
score_ticker(ticker, cs, an, gl, hc, day) ==
    LET signals == all_signals(cs, an, gl, hc, day)
        total   == total_score(signals)
        key     == strategy_key_of(signals, an, gl)
        strat   == get_strategy(key[1], key[2], key[3])
    IN  [ticker |-> ticker,
         score |-> total,
         direction |-> strat.direction,
         play_type |-> strat.play_type,
         reasoning |-> [description |-> strat.description,
                        top |-> top_signals(signals)],
         risk_notes |-> risk_parts(key[1], key[2], signals[3].detail, total,
                                   arg_iv_rank(hc)),
         signals |-> signals,
         price_at_score |-> arg_price(an),
         iv_rank_value |-> arg_iv_rank(hc),
         net_gex_value |-> arg_net_gex(gl)]

----------------------------------------------------------------------------
(* Scorer: the inputs of the model and the specification of one call *)

\* A contract as the scorer reads it.  A missing field reads as its c.get
\* default: 0 for the numbers, "" for the expiration.
ChainContract(strike, oi, vol, exp, type) ==
    [Strike |-> strike, OpenInterest |-> oi, Volume |-> vol,
     Expiration |-> exp, Type |-> type]

\* The contracts of score_ticker's calls (the price, when present, is 1000;
\* open interest and volume are in hundreds of contracts).
ChainContracts ==
    { ChainContract(1000, 50,  60, "2026-01-01", "CALL"),  \* expires tomorrow
      ChainContract(1000, 250, 1,  "2026-01-01", "PUT"),
      ChainContract(1000, 50,  10, "not-a-date", "PUT"),   \* malformed expiration
      ChainContract(1040, 50,  15, "2026-01-30", "CALL"),
      ChainContract(1200, 90,  90, "2026-01-04", "CALL"),  \* outside the window
      ChainContract(990,  0,   0,  "",           "PUT"),   \* no OI, no expiration
      ChainContract(1000, 60,  7,  "2026-07-19", "CALL") } \* far dated

Analytics(price, strikes) == Some([price |-> price, strikes |-> strikes])
Delta(d) == [total_delta |-> d]

AnalyticsInputs ==
    { None,
      Analytics(1000, <<>>),
      Analytics(1000, (1000 :> Delta(600000)) @@ (1200 :> Delta(-900000))),
      Analytics(1000, (1000 :> Delta(-30000))),
      Analytics(1000, (990 :> Delta(4000)) @@ (1010 :> Delta(-4000))) }

GammaLevels(pos_strike, pos_gex, neg_strike, neg_gex) ==
    Some([max_positive_gamma_strike |-> pos_strike,
          max_positive_gamma_value |-> pos_gex,
          max_negative_gamma_strike |-> neg_strike,
          max_negative_gamma_value |-> neg_gex])

GammaLevelInputs ==
    { None,
      GammaLevels(Some(1000), 50, Some(900), -20),   \* at the call wall, net > 0
      GammaLevels(None, 0, Some(980), -30),          \* 2% from the put wall, net < 0
      GammaLevels(Some(1100), 50, Some(900), -50),   \* mid range, net = 0
      GammaLevels(Some(1030), 10, Some(995), -40) }  \* both walls within 3%

Momentum(trend, samples) ==
    [gex_trend |-> trend, gex_samples |-> samples, gex_start |-> 0, gex_end |-> 0]

Context(pct, momentum, iv, prev) ==
    Some([gex_percentile |-> pct, momentum |-> momentum, iv_rank |-> iv,
          previous_pc_ratio |-> prev])

ContextInputs ==
    { None,                                                     \* no context
      Context(Some(1000), Momentum(600, 5), Some(1000), Some(100)),
      Context(Some(250), Momentum(-300, 3), Some(850), Some(200)),
      Context(Some(0), Momentum(0, 1), Some(100), Some(0)),
      Context(Some(500), <<>>, None, None),                     \* IV rank missing
      Context(Some(1000), Momentum(600, 5), Some(1500), Some(100)), \* rank above 1
      Context(Some(500), Momentum(120, 2), Some(-500), None),   \* rank below 0
      Some([iv_rank |-> Some(700)]) }                           \* other keys absent

ScorerInit ==
    /\ contracts = <<>>
    /\ analytics \in AnalyticsInputs
    /\ gamma_levels \in GammaLevelInputs
    /\ historical_context \in ContextInputs
    /\ today = 0
    /\ dte_mult = 1000
    /\ rec = None
    /\ score_pc = "input"
    /\ StrategyIdle
    /\ GammaIdle
    /\ LaterIdle

\* The caller collects one more contract of the ticker.
AddContract ==
    /\ score_pc = "input"
    /\ Len(contracts) < MaxChain
    /\ \E c \in ChainContracts : contracts' = Append(contracts, c)
    /\ UNCHANGED <<analytics, gamma_levels, historical_context, today, dte_mult,
                   rec, score_pc>>
    /\ UNCHANGED <<gammaVars, strategyVars, laterVars>>

\* score_ticker("A", contracts, analytics, gamma_levels, historical_context).
ScoreTicker ==
    /\ score_pc = "input"
    /\ dte_mult' = compute_dte_weight(contracts, arg_price(analytics), today)
    /\ IF raises_in_gex_regime(gamma_levels, historical_context)
       THEN /\ score_pc' = "raised"
            /\ rec' = None
            /\ UNCHANGED strategyVars
       ELSE /\ strategy_key' = strategy_inputs(contracts, analytics, gamma_levels,
                                               historical_context, today)
            /\ strategy' = Some(get_strategy(strategy_key'[1], strategy_key'[2],
                                             strategy_key'[3]))
            /\ IF raises_in_risk_notes(historical_context)
               THEN score_pc' = "raised" /\ rec' = None
               ELSE /\ score_pc' = "scored"
                    /\ rec' = Some(score_ticker("A", contracts, analytics, gamma_levels,
                                                historical_context, today))
    /\ UNCHANGED <<contracts, analytics, gamma_levels, historical_context, today>>
    /\ UNCHANGED <<gammaVars, laterVars>>

ScorerNext == AddContract \/ ScoreTicker

SpecScorer == ScorerInit /\ [][ScorerNext]_vars

----------------------------------------------------------------------------
(* DTE weight calculator alone: _compute_dte_weight *)

DteContracts ==
    { ChainContract(1000, oi, 0, exp, "CALL") :
          oi \in {1, 4}, exp \in DOMAIN ExpirationDates \cup {"", "not-a-date"} }
    \cup
    { ChainContract(1200, 9, 0, "2026-01-01", "CALL"),   \* outside the window
      ChainContract(1000, 0, 0, "2026-01-01", "PUT") }   \* no open interest

DteInit ==
    /\ contracts = <<>>
    /\ analytics = Analytics(1000, <<>>)
    /\ gamma_levels = None
    /\ historical_context = None
    /\ today \in {0, 1}
    /\ dte_mult = 1000
    /\ rec = None
    /\ score_pc = "input"
    /\ StrategyIdle
    /\ GammaIdle
    /\ LaterIdle

AddDteContract ==
    /\ score_pc = "input"
    /\ Len(contracts) < MaxChain
    /\ \E c \in DteContracts : contracts' = Append(contracts, c)
    /\ UNCHANGED <<analytics, gamma_levels, historical_context, today, dte_mult,
                   rec, score_pc>>
    /\ UNCHANGED <<gammaVars, strategyVars, laterVars>>

\* dte_mult = _compute_dte_weight(contracts, price)  (line 563).
ComputeDteWeight ==
    /\ score_pc = "input"
    /\ dte_mult' = compute_dte_weight(contracts, arg_price(analytics), today)
    /\ score_pc' = "weighted"
    /\ UNCHANGED <<contracts, analytics, gamma_levels, historical_context, today, rec>>
    /\ UNCHANGED <<gammaVars, strategyVars, laterVars>>

DteNext == AddDteContract \/ ComputeDteWeight

SpecDte == DteInit /\ [][DteNext]_vars

----------------------------------------------------------------------------
(* Strategy mapper alone: get_strategy *)

\* The three axes of the table, and what a caller may pass besides.
GexRegimes == {"positive", "negative"}
WallPositions == {"near_call_wall", "near_put_wall", "mid_range"}
SkewDirections == {"bullish", "bearish", "neutral"}
OtherArguments == {"", "NEUTRAL", "flat"}

StrategyInit == StrategyIdle /\ ScorerIdle /\ GammaIdle /\ LaterIdle

\* get_strategy(gex_regime, wall_position, skew_direction).
GetStrategy ==
    /\ \E g \in GexRegimes \cup OtherArguments,
          w \in WallPositions \cup OtherArguments,
          k \in SkewDirections \cup OtherArguments :
          /\ strategy_key' = <<g, w, k>>
          /\ strategy' = Some(get_strategy(g, w, k))
    /\ UNCHANGED <<gammaVars, scorerVars, laterVars>>

StrategyNext == GetStrategy

SpecStrategy == StrategyInit /\ [][StrategyNext]_vars

----------------------------------------------------------------------------
(* Scorer: properties of score_ticker (SpecScorer) *)

\* The Recommendation of the call, once score_ticker has returned.
Scored == score_pc = "scored"
Signals == rec[1].signals

\* C1: for every input of score_ticker, caller-supplied historical context
\* included, each of the 9 sub-scores of the returned Recommendation is in
\* 0..max_score of its signal, and the total score is in 0..100.
C1_SubScoresBounded ==
    Scored =>
        /\ \A i \in 1..9 : Signals[i].score \in 0..Signals[i].max_score
        /\ rec[1].score \in 0..100

\* The names of the signals, in the order of the list.
SignalNames ==
    << "GEX Regime", "Wall Proximity", "P/C Skew", "Vol/OI Surge", "IV Rank",
       "Directional Bias", "GEX Momentum", "Skew Momentum", "DTE Conviction" >>

SignalSum ==
    Signals[1].score + Signals[2].score + Signals[3].score + Signals[4].score
    + Signals[5].score + Signals[6].score + Signals[7].score + Signals[8].score
    + Signals[9].score

\* C2: the total score of a returned Recommendation is the sum of the scores
\* of its exactly 9 signals - GEX regime, wall proximity, P/C skew, vol/OI
\* surge, IV rank, directional bias, GEX momentum, skew momentum, DTE
\* conviction, in that order - clamped to 0..100.
C2_TotalIsClampedSum ==
    Scored =>
        /\ Len(Signals) = 9
        /\ \A i \in 1..9 : Signals[i].name = SignalNames[i]
        /\ rec[1].score = (IF SignalSum < 0 THEN 0
                           ELSE IF SignalSum > 100 THEN 100 ELSE SignalSum)

\* A Recommendation whose nine signals all score and sum to more than 100:
\* the clamp acts.
C2_Witness ==
    /\ Scored
    /\ \A i \in 1..9 : Signals[i].score > 0
    /\ SignalSum > 100
    /\ rec[1].score = 100

\* The table's key of each signal of the list.
SignalKeys ==
    << "gex_regime", "wall_proximity", "pc_skew", "volume_oi_surge", "iv_rank",
       "directional_bias", "gex_momentum", "skew_momentum", "dte_conviction" >>

\* C3: the weight table has exactly 9 signals, every weight is > 0 and the
\* weights sum to 100; each signal of a Recommendation carries its own table
\* weight as max_score, so the 9 max_score values sum to 100.
C3_WeightTable ==
    /\ Cardinality(DOMAIN WEIGHTS) = 9
    /\ \A k \in DOMAIN WEIGHTS : WEIGHTS[k] > 0
    /\ SumSeq([i \in 1..9 |-> WEIGHTS[SignalKeys[i]]]) = 100
    /\ Range(SignalKeys) = DOMAIN WEIGHTS
    /\ Scored =>
           /\ \A i \in 1..9 : Signals[i].max_score = WEIGHTS[SignalKeys[i]]
           /\ SumSeq([i \in 1..9 |-> Signals[i].max_score]) = 100

\* A Recommendation computed from a chain, analytics, levels and a context.
C3_Witness ==
    /\ Scored
    /\ Len(contracts) = MaxChain
    /\ analytics # None /\ gamma_levels # None /\ historical_context # None
    /\ <<Signals[7].max_score, Signals[8].max_score>> = <<8, 5>>

\* The call with nothing to score.
EmptyCall ==
    /\ contracts = <<>>
    /\ analytics = None
    /\ gamma_levels = None
    /\ historical_context = None

\* C9: with no contracts, no analytics, no gamma levels and no historical
\* context, score_ticker does not raise, the DTE multiplier is the neutral
\* 1.0, only the IV Rank and DTE Conviction sub-scores are non-zero, and the
\* total score is <= 10.
C9_EmptyInputs ==
    (EmptyCall /\ score_pc # "input") =>
        /\ Scored
        /\ dte_mult = 1000
        /\ \A i \in 1..9 : (Signals[i].score # 0) <=> (i \in {5, 9})
        /\ rec[1].score <= 10

C9_Witness ==
    /\ EmptyCall
    /\ Scored
    /\ Signals[5].score = 1 /\ Signals[9].score = 3
    /\ rec[1].score = 4

----------------------------------------------------------------------------
(* DTE weight calculator: properties of _compute_dte_weight (SpecDte) *)

\* The call has returned.
Weighted == score_pc = "weighted"

\* The open-interest-weighted average DTE of a chain, as the pair
\* <<sum of dte * OI, sum of OI>> over the contracts counted.
AvgDte(cs, day) == <<dte_weighted_sum(cs, 1000, day), dte_total_oi(cs, 1000)>>

\* Average a is at most average b.
AvgLeq(a, b) == a[1] * b[2] <= b[1] * a[2]

\* The chains the call's chain is compared with: one or two of the contracts.
OtherChains ==
    { <<c>> : c \in DteContracts } \cup
    { <<c, d>> : c \in DteContracts, d \in DteContracts }

\* Their averages, each with the multiplier _compute_dte_weight returns for it.
OtherWeights ==
    [day \in {0, 1} |->
        { <<AvgDte(o, day), compute_dte_weight(o, 1000, day)>> :
              o \in { x \in OtherChains : dte_total_oi(x, 1000) > 0 } }]

\* C8: the multiplier _compute_dte_weight returns is non-increasing as the
\* open-interest-weighted average DTE increases, across the breakpoints 1, 7
\* and 30 and into the 0.5 floor, and it always lies in [0.5, 1.5].
C8_DteWeightNonIncreasing ==
    Weighted =>
        /\ dte_mult \in 500..1500
        /\ LET avg == AvgDte(contracts, today)
           IN  avg[2] > 0 =>
                   \A o \in OtherWeights[today] :
                       /\ AvgLeq(avg, o[1]) => o[2] <= dte_mult
                       /\ AvgLeq(o[1], avg) => o[2] >= dte_mult

\* A chain whose average DTE lies between the breakpoints 7 and 30, with a
\* multiplier strictly between those of its neighbours.
C8_Witness ==
    /\ Weighted
    /\ Len(contracts) = 2
    /\ AvgDte(contracts, today)[2] > 0
    /\ ~AvgLeq(AvgDte(contracts, today), <<7, 1>>)
    /\ ~AvgLeq(<<30, 1>>, AvgDte(contracts, today))
    /\ dte_mult > 1000 /\ dte_mult < 1200

----------------------------------------------------------------------------
(* Strategy mapper: properties of get_strategy (SpecStrategy) *)

\* get_strategy has returned for strategy_key.
Mapped == strategy # None

\* The key is one of the 18 combinations of the three axes.
InTable ==
    /\ strategy_key[1] \in {"positive", "negative"}
    /\ strategy_key[2] \in {"near_call_wall", "near_put_wall", "mid_range"}
    /\ strategy_key[3] \in {"bullish", "bearish", "neutral"}

\* C10: for each of the 18 combinations of {positive, negative} x
\* {near_call_wall, near_put_wall, mid_range} x {bullish, bearish, neutral}
\* get_strategy returns the explicit table entry, never the fallback, with a
\* direction in {BULLISH, BEARISH, NEUTRAL} and the risk profile "Defined
\* Risk"; for any other key it returns the NEUTRAL Iron Condor fallback.
C10_StrategyTable ==
    Mapped =>
        IF InTable
        THEN /\ strategy_key \in DOMAIN STRATEGY_MAP
             /\ strategy[1] = STRATEGY_MAP[strategy_key]
             /\ strategy[1].description #
                    "Insufficient signal clarity - consider neutral premium selling"
             /\ strategy[1].direction \in {"BULLISH", "BEARISH", "NEUTRAL"}
             /\ strategy[1].risk_profile = "Defined Risk"
        ELSE /\ strategy[1].play_type = "Iron Condor"
             /\ strategy[1].direction = "NEUTRAL"
             /\ strategy[1].description =
                    "Insufficient signal clarity - consider neutral premium selling"

\* A key with two table values and a skew the table does not know.
C10_Witness ==
    /\ Mapped
    /\ strategy_key = <<"negative", "near_put_wall", "flat">>
    /\ strategy[1].play_type = "Iron Condor"
    /\ strategy[1].direction = "NEUTRAL"

----------------------------------------------------------------------------
(* Batch scorer: _fetch_historical_context and score_all_tickers *)

\* A contract of all_contracts: a scorer contract with its Symbol ("" when
\* the field is missing or empty).
BatchContract(sym, strike, oi, vol, exp, type) ==
    [Symbol |-> sym, Strike |-> strike, OpenInterest |-> oi, Volume |-> vol,
     Expiration |-> exp, Type |-> type]

\* An entry of analytics_data: a dict (mapping, with the analytics it holds) or
\* a value of another type, on which analytics.get raises AttributeError.
AnalyticsEntry(an) == [mapping |-> TRUE, value |-> an]
NotAMapping == [mapping |-> FALSE, value |-> None]

\* sorted() on the ticker symbols of the model.
TickerOrder == <<"A", "B", "C", "D">>
sorted_tickers(tickers) == SelectSeq(TickerOrder, LAMBDA t : t \in tickers)

\* Lines 681-685: by_ticker, the contracts grouped by a non-empty Symbol.
batch_unfiltered(cs, ticker) == cs
batch_by_ticker(cs, ticker) == SelectSeq(cs, LAMBDA c : c.Symbol = ticker)

\* Lines 687-691: all_tickers.
all_tickers(cs, ad, gd) ==
    { c.Symbol : c \in { x \in Range(cs) : x.Symbol # "" } }
    \cup DOMAIN ad \cup DOMAIN gd

\* Lines 640-645: the context before anything is fetched.
default_context_last_ratio ==
    [gex_percentile |-> Some(500), momentum |-> <<>>, iv_rank |-> Some(500),
     previous_pc_ratio |-> Some(100)]
default_context ==
    [gex_percentile |-> Some(500), momentum |-> <<>>, iv_rank |-> Some(500),
     previous_pc_ratio |-> None]

\* What the historical DB answers for one ticker: whether get_gamma_history
\* returns rows, the values the three queries return, and the call that raises
\* ("none", "history", "percentile", "momentum" or "iv_rank").
HistoryAnswer(fault, has_history, pct, mom, iv) ==
    [fault |-> fault, has_history |-> has_history, percentile |-> pct,
     momentum |-> mom, iv_rank |-> iv]

\* Lines 635-668: _fetch_historical_context.  The context is filled in call
\* by call; an exception leaves the try block with what was filled in so far.
fetch_historical_context(h) ==
    LET c0 == default_context
        c1 == IF h.has_history
              THEN [c0 EXCEPT !.gex_percentile = Some(h.percentile)] ELSE c0
        c2 == [c1 EXCEPT !.momentum = h.momentum]
        c3 == [c2 EXCEPT !.iv_rank = Some(h.iv_rank)]
    IN  IF h.fault = "history" THEN c0
        ELSE IF h.has_history /\ h.fault = "percentile" THEN c0
        ELSE IF h.fault = "momentum" THEN c1
        ELSE IF h.fault = "iv_rank" THEN c2
        ELSE c3

\* Lines 696-698: the arguments of the ticker's score_ticker call.
ticker_analytics(ad, ticker) ==
    IF ticker \in DOMAIN ad THEN ad[ticker] ELSE AnalyticsEntry(None)
ticker_gamma(gd, ticker) == IF ticker \in DOMAIN gd THEN gd[ticker] ELSE None

\* Lines 701-703 raise: analytics.get on a value that is no dict (line 548),
\* or one of score_ticker's TypeErrors.
ticker_raises(ad, gd, db, ticker) ==
    \/ ~ticker_analytics(ad, ticker).mapping
    \/ score_ticker_raises(ticker_gamma(gd, ticker),
                           Some(fetch_historical_context(db[ticker])))

\* Lines 705-706: the exception is caught and logged, the loop goes on with
\* the remaining tickers.
except_aborts(remaining) == <<>>
except_continues(remaining) == remaining

\* Lines 693-706: the loop over sorted(all_tickers).
RECURSIVE score_each(_, _, _, _, _, _)
score_each(tickers, cs, ad, gd, db, day) ==
    IF tickers = <<>> THEN <<>>
    ELSE LET t == Head(tickers)
             remaining == score_each(Tail(tickers), cs, ad, gd, db, day)
         IN  IF ticker_raises(ad, gd, db, t)
             THEN except_continues(remaining)
             ELSE << score_ticker(t, batch_by_ticker(cs, t),
                                  ticker_analytics(ad, t).value,
                                  ticker_gamma(gd, t),
                                  Some(fetch_historical_context(db[t])), day) >>
                  \o remaining

\* Line 708: recommendations.sort(key=score, reverse=True), a stable sort.
RECURSIVE sort_by_score(_)
sort_unsorted(recs) == recs
sort_by_score(recs) ==
    IF recs = <<>> THEN <<>>
    ELSE LET sorted == sort_by_score(SubSeq(recs, 1, Len(recs) - 1))
             r      == recs[Len(recs)]
             ahead  == SelectSeq(sorted, LAMBDA x : x.score >= r.score)
             behind == SelectSeq(sorted, LAMBDA x : x.score < r.score)
         IN  ahead \o <<r>> \o behind

\* Lines 671-714: score_all_tickers.
score_all_tickers(cs, ad, gd, db, day) ==
    sort_by_score(score_each(sorted_tickers(all_tickers(cs, ad, gd)),
                             cs, ad, gd, db, day))

\* The inputs of score_all_tickers in this model.
BatchContracts ==
    { BatchContract("A", 1000, 50,  60, "2026-01-01", "CALL"),
      BatchContract("A", 1000, 250, 1,  "2026-01-01", "PUT"),
      BatchContract("B", 1040, 50,  15, "2026-01-30", "CALL"),
      BatchContract("C", 1000, 60,  7,  "2026-07-19", "CALL"),
      BatchContract("",  1000, 50,  10, "not-a-date", "PUT") }   \* no Symbol

AnalyticsDataInputs ==
    { <<>>,
      ("A" :> AnalyticsEntry(Analytics(1000, <<>>))),
      ("A" :> AnalyticsEntry(Analytics(1000, (1000 :> Delta(600000)))))
          @@ ("B" :> NotAMapping),
      ("A" :> AnalyticsEntry(Analytics(1000, <<>>)))
          @@ ("B" :> AnalyticsEntry(Analytics(1000, (1000 :> Delta(-30000)))))
          @@ ("D" :> AnalyticsEntry(None)) }

LevelsDataInputs ==
    { <<>>,
      ("A" :> GammaLevels(Some(1000), 50, Some(900), -20)),
      ("B" :> GammaLevels(None, 0, Some(980), -30)) @@ ("D" :> None) }

\* Answers of the historical DB: no rows at all, a full history, and a full
\* history with each of the calls failing.
NoHistory == HistoryAnswer("none", FALSE, 500, Momentum(0, 0), 500)
FullHistory == HistoryAnswer("none", TRUE, 900, Momentum(600, 5), 1000)

HistoryAnswers ==
    { NoHistory, FullHistory,
      HistoryAnswer("history", TRUE, 900, Momentum(600, 5), 1000),
      HistoryAnswer("percentile", TRUE, 900, Momentum(600, 5), 1000),
      HistoryAnswer("percentile", FALSE, 900, Momentum(600, 5), 1000),
      HistoryAnswer("momentum", TRUE, 900, Momentum(600, 5), 1000),
      HistoryAnswer("iv_rank", TRUE, 900, Momentum(600, 5), 1000) }

HistoryDbInputs ==
    { [t \in Range(TickerOrder) |-> IF t = "A" THEN a ELSE b] :
          a \in HistoryAnswers,
          b \in {NoHistory, HistoryAnswer("iv_rank", TRUE, 250, Momentum(-300, 3), 850)} }

BatchInit ==
    /\ all_contracts = <<>>
    /\ analytics_data \in AnalyticsDataInputs
    /\ levels_data \in LevelsDataInputs
    /\ history_db \in HistoryDbInputs
    /\ hist_ctx = <<>>
    /\ recommendations = <<>>
    /\ batch_pc = "input"
    /\ BacktestIdle /\ QueryIdle /\ CycleIdle
    /\ GammaIdle /\ ScorerIdle /\ StrategyIdle

\* The fetch cycle collects one more contract.
AddBatchContract ==
    /\ batch_pc = "input"
    /\ Len(all_contracts) < MaxChain
    /\ \E c \in BatchContracts : all_contracts' = Append(all_contracts, c)
    /\ UNCHANGED <<analytics_data, levels_data, history_db, hist_ctx,
                   recommendations, batch_pc>>
    /\ UNCHANGED <<backtestVars, queryVars, cycleVars, gammaVars, scorerVars, strategyVars>>

\* score_all_tickers(all_contracts, analytics_data, gamma_data).
ScoreAllTickers ==
    /\ batch_pc = "input"
    /\ hist_ctx' = [t \in all_tickers(all_contracts, analytics_data, levels_data) |->
                        fetch_historical_context(history_db[t])]
    /\ recommendations' = score_all_tickers(all_contracts, analytics_data,
                                            levels_data, history_db, today)
    /\ batch_pc' = "returned"
    /\ UNCHANGED <<all_contracts, analytics_data, levels_data, history_db>>
    /\ UNCHANGED <<backtestVars, queryVars, cycleVars, gammaVars, scorerVars, strategyVars>>

BatchNext == AddBatchContract \/ ScoreAllTickers

SpecBatch == BatchInit /\ [][BatchNext]_vars

----------------------------------------------------------------------------
(* Batch scorer: properties of score_all_tickers (SpecBatch) *)

BatchReturned == batch_pc = "returned"

\* The ticker symbols that appear in the contracts, the analytics keys or the
\* gamma-level keys.
BatchSymbols ==
    { all_contracts[i].Symbol : i \in { j \in DOMAIN all_contracts :
                                            all_contracts[j].Symbol # "" } }
    \cup DOMAIN analytics_data \cup DOMAIN levels_data

\* The tickers whose scoring raises.
Raising ==
    { t \in BatchSymbols : ticker_raises(analytics_data, levels_data, history_db, t) }

\* The positions of the returned list that hold ticker t.
RecsOf(t) == { i \in DOMAIN recommendations : recommendations[i].ticker = t }

\* C11: when no scoring exception occurs, score_all_tickers returns exactly
\* one Recommendation for every ticker symbol of the contracts, the analytics
\* keys and the gamma-level keys, ordered non-increasing by score.
C11_OnePerTickerSorted ==
    (BatchReturned /\ Raising = {}) =>
        /\ \A t \in BatchSymbols : Cardinality(RecsOf(t)) = 1
        /\ \A i \in DOMAIN recommendations : recommendations[i].ticker \in BatchSymbols
        /\ \A i \in 1..(Len(recommendations) - 1) :
               recommendations[i].score >= recommendations[i + 1].score

\* A batch of four tickers, none raising, that the sort reorders.
C11_Witness ==
    /\ BatchReturned
    /\ Raising = {}
    /\ BatchSymbols = {"A", "B", "C", "D"}
    /\ Len(recommendations) = 4
    /\ recommendations[1].ticker # "A"
    /\ recommendations[1].score > recommendations[4].score

\* C12: when scoring one ticker raises, that ticker alone is missing from the
\* result, every other ticker of the batch is scored and returned, and
\* score_all_tickers itself does not raise.
C12_FailedTickerSkipped ==
    /\ batch_pc # "raised"
    /\ (BatchReturned /\ Raising # {}) =>
           /\ \A t \in Raising : RecsOf(t) = {}
           /\ \A t \in BatchSymbols \ Raising : Cardinality(RecsOf(t)) = 1
           /\ Len(recommendations) = Cardinality(BatchSymbols \ Raising)

\* Ticker B raises; A before it and C after it in the loop are returned.
C12_Witness ==
    /\ BatchReturned
    /\ Raising = {"B"}
    /\ {"A", "C"} \subseteq BatchSymbols
    /\ RecsOf("B") = {}
    /\ RecsOf("A") # {} /\ RecsOf("C") # {}

\* A retrieval of the ticker's historical context failed.
RetrievalFailed(h) ==
    \/ h.fault = "history"
    \/ h.fault = "percentile" /\ h.has_history
    \/ h.fault = "momentum"
    \/ h.fault = "iv_rank"

\* C13: if a historical-context retrieval of a ticker fails, the context
\* used to score that ticker is exactly the neutral defaults - gex_percentile
\* 0.5, iv_rank 0.5, empty momentum, no previous P/C ratio - and the scoring
\* of that ticker and of the others proceeds.
C13_FailedFetchGivesDefaults ==
    BatchReturned =>
        \A t \in DOMAIN hist_ctx :
            RetrievalFailed(history_db[t]) =>
                /\ hist_ctx[t] = [gex_percentile |-> Some(500), momentum |-> <<>>,
                                  iv_rank |-> Some(500), previous_pc_ratio |-> None]
                /\ \A u \in BatchSymbols \ Raising : RecsOf(u) # {}

----------------------------------------------------------------------------
(* score_ticker invoked twice with the same arguments (SpecRepeat) *)

\* Contracts at the money with dated expirations.
DatedContracts ==
    { ChainContract(1000, 1, 0, "2026-01-08", "CALL"),
      ChainContract(1000, 4, 0, "2026-01-02", "CALL"),
      ChainContract(1000, 4, 0, "2026-01-31", "CALL"),
      ChainContract(1000, 1, 0, "",           "CALL") }

RepeatInit ==
    /\ contracts = <<>>
    /\ analytics = Analytics(1000, <<>>)
    /\ gamma_levels \in {None, GammaLevels(Some(1000), 50, Some(900), -20)}
    /\ historical_context \in
           {None, Context(Some(250), Momentum(-300, 3), Some(850), Some(200)),
            Some([iv_rank |-> Some(700)])}
    /\ today = 0
    /\ dte_mult = 1000
    /\ rec = None
    /\ score_pc = "input"
    /\ StrategyIdle
    /\ GammaIdle
    /\ LaterIdle

AddDatedContract ==
    /\ score_pc = "input"
    /\ Len(contracts) < MaxChain
    /\ \E c \in DatedContracts : contracts' = Append(contracts, c)
    /\ UNCHANGED <<analytics, gamma_levels, historical_context, today, dte_mult,
                   rec, score_pc>>
    /\ UNCHANGED <<gammaVars, strategyVars, laterVars>>

\* The date changes between the two invocations (lines 91, 223, 287:
\* datetime.now().date() is read inside the call).
MidnightPasses ==
    /\ score_pc = "scored"
    /\ today = 0
    /\ today' = 1
    /\ UNCHANGED <<contracts, analytics, gamma_levels, historical_context, dte_mult,
                   rec, score_pc>>
    /\ UNCHANGED <<gammaVars, strategyVars, laterVars>>

\* The second invocation, with the arguments of the first.
ScoreTickerAgain ==
    /\ score_pc = "scored"
    /\ dte_mult' = compute_dte_weight(contracts, arg_price(analytics), today)
    /\ rec' = Some(score_ticker("A", contracts, analytics, gamma_levels,
                                historical_context, today))
    /\ score_pc' = "rescored"
    /\ UNCHANGED <<contracts, analytics, gamma_levels, historical_context, today>>
    /\ UNCHANGED <<gammaVars, strategyVars, laterVars>>

RepeatNext == AddDatedContract \/ ScoreTicker \/ MidnightPasses \/ ScoreTickerAgain

SpecRepeat == RepeatInit /\ [][RepeatNext]_vars

\* C14: score_ticker is a pure function of its arguments: a second invocation
\* with the same ticker, contracts, analytics, gamma levels and historical
\* context returns the same total score, the same 9 sub-scores, the same
\* direction and the same play type, whenever it happens.
C14_SameArgumentsSameResult ==
    [][(score_pc = "scored" /\ score_pc' = "rescored") =>
           /\ rec'[1].score = rec[1].score
           /\ \A i \in 1..9 : rec'[1].signals[i].score = rec[1].signals[i].score
           /\ rec'[1].direction = rec[1].direction
           /\ rec'[1].play_type = rec[1].play_type]_vars

----------------------------------------------------------------------------
(* Backtester: agent/backtester.py, evaluate_recommendations *)

\* The history of the model: at most MaxSingles single rows, then runs of
\* RunLength equal rows until the history is longer than the output cap.
MaxSingles == 2
RunLength == 25

\* Line 119: outcomes[:50].
OutputCap == 50

\* An outcome row of get_recommendation_outcomes (queries.py 327-336).
\* return_pct is rounded to 3 decimals there; here it is in thousandths of a
\* percent.
Outcome(score, direction, return_pct) ==
    [score |-> score, direction |-> direction, return_pct |-> return_pct]

\* round(n/d) to the nearest integer, d > 0.  The returns of the model are
\* multiples of 0.004 and no average or rate of its outcome lists falls on
\* a tie.
round_div(n, d) ==
    IF n >= 0 THEN (2 * n + d) \div (2 * d) ELSE -((2 * (-n) + d) \div (2 * d))

\* Lines 67-75: the tier of a score.
tier_of_wide_top(score) ==
    IF score >= 79 THEN "80-100"
    ELSE IF score >= 60 THEN "60-79"
    ELSE IF score >= 40 THEN "40-59"
    ELSE "0-39"
tier_of(score) ==
    IF score >= 80 THEN "80-100"
    ELSE IF score >= 60 THEN "60-79"
    ELSE IF score >= 40 THEN "40-59"
    ELSE "0-39"

\* Lines 55-60: the keys of tiers.
TierNames == {"80-100", "60-79", "40-59", "0-39"}

\* Lines 80-94: whether the outcome adds to a 'correct' counter.
is_correct_flat_hits(direction, ret) ==
    IF direction = "BULLISH" THEN ret >= 0
    ELSE IF direction = "BEARISH" THEN ret <= 0
    ELSE Abs(ret) < 500
is_correct(direction, ret) ==
    IF direction = "BULLISH" THEN ret > 0
    ELSE IF direction = "BEARISH" THEN ret < 0
    ELSE Abs(ret) < 500

\* round(correct / total * 100, 1) if total > 0 else 0, in tenths of a percent
\* (lines 100, 111-113).
hit_rate_truncated(correct, total) ==
    IF total > 0 THEN (1000 * correct) \div total ELSE 0
hit_rate(correct, total) ==
    IF total > 0 THEN round_div(1000 * correct, total) ELSE 0

\* The outcomes of one direction ("" stands for the else branch of line 91).
of_direction(outs, direction) ==
    SelectSeq(outs, LAMBDA o :
        IF direction \in {"BULLISH", "BEARISH"} THEN o.direction = direction
        ELSE o.direction \notin {"BULLISH", "BEARISH"})

correct_of(outs) == SelectSeq(outs, LAMBDA o : is_correct(o.direction, o.return_pct))

\* Lines 55-60, 77-78, 96-101: the entry of one tier.  avg_return and hit_rate
\* are assigned inside "if t['returns']", and 'returns' is deleted.
tier_entry(outs, tier) ==
    LET mine == SelectSeq(outs, LAMBDA o : tier_of(o.score) = tier)
    IN  IF mine # <<>>
        THEN [count |-> Len(mine),
              correct |-> Len(correct_of(mine)),
              avg_return |-> round_div(SumSeq([i \in DOMAIN mine |-> mine[i].return_pct]),
                                       Len(mine)),
              hit_rate |-> hit_rate(Len(correct_of(mine)), Len(mine))]
        ELSE [count |-> 0, correct |-> 0, avg_return |-> 0]

\* Lines 104-117: result['accuracy'].
accuracy_of(outs) ==
    LET bullish == of_direction(outs, "BULLISH")
        bearish == of_direction(outs, "BEARISH")
        total_directional == Len(bullish) + Len(bearish)
        total_correct == Len(correct_of(bullish)) + Len(correct_of(bearish))
    IN  [bullish_hit_rate |-> hit_rate(Len(correct_of(bullish)), Len(bullish)),
         bearish_hit_rate |-> hit_rate(Len(correct_of(bearish)), Len(bearish)),
         overall_hit_rate |-> hit_rate(total_correct, total_directional),
         bullish_total |-> Len(bullish),
         bearish_total |-> Len(bearish),
         neutral_total |-> Len(of_direction(outs, ""))]

\* Line 119: outcomes[:50].
cap_none(outs) == outs
cap_outcomes(outs) == SubSeq(outs, 1, Min(Len(outs), OutputCap))

\* Lines 35-37: the provider raised.
provider_failed_report == [error |-> "provider failed", total_recommendations |-> 0]

\* Lines 39-46: no outcome rows.
no_data_as_zero_rates ==
    [total_recommendations |-> 0,
     accuracy |-> accuracy_of(<<>>),
     by_score_tier |-> [t \in TierNames |-> tier_entry(<<>>, t)],
     outcomes |-> <<>>]
no_data_report ==
    [total_recommendations |-> 0,
     message |-> "No recommendation data yet. Run the fetcher to generate history.",
     accuracy |-> <<>>,
     by_score_tier |-> <<>>,
     outcomes |-> <<>>]

\* Lines 18-125: evaluate_recommendations(hours=24).
evaluate_recommendations(source, outs) ==
    IF source = "fails" THEN provider_failed_report
    ELSE IF outs = <<>> THEN no_data_report
    ELSE [total_recommendations |-> Len(outs),
          lookback_hours |-> 24,
          accuracy |-> accuracy_of(outs),
          by_score_tier |-> [t \in TierNames |-> tier_entry(outs, t)],
          outcomes |-> cap_outcomes(outs)]

\* The outcome rows of the model: every direction with a gain, a loss and no
\* move, and scores on both sides of each tier boundary.
OutcomeRows ==
    { Outcome(85,  "BULLISH", 1500),
      Outcome(80,  "BULLISH", 0),      \* current price unavailable
      Outcome(79,  "BULLISH", -2000),
      Outcome(60,  "BEARISH", -500),
      Outcome(59,  "BEARISH", 0),
      Outcome(40,  "BEARISH", 1500),
      Outcome(39,  "NEUTRAL", 496),
      Outcome(0,   "NEUTRAL", 500),
      Outcome(100, "NEUTRAL", 0),
      Outcome(45,  "",        -500) }

\* The rows that arrive in runs (the same recommendation logged every cycle).
RunRows == { Outcome(85, "BULLISH", 1500), Outcome(39, "NEUTRAL", 496) }

BacktestInit ==
    /\ outcome_source \in {"ok", "fails"}
    /\ outcomes = <<>>
    /\ result = None
    /\ backtest_pc = "input"
    /\ BatchIdle /\ QueryIdle /\ CycleIdle
    /\ GammaIdle /\ ScorerIdle /\ StrategyIdle

\* The history holds one more outcome row, or a run of equal rows.
AddOutcome ==
    /\ backtest_pc = "input"
    /\ outcome_source = "ok"
    /\ Len(outcomes) < MaxSingles
    /\ \E o \in OutcomeRows : outcomes' = Append(outcomes, o)
    /\ UNCHANGED <<outcome_source, result, backtest_pc>>
    /\ UNCHANGED <<batchVars, queryVars, cycleVars, gammaVars, scorerVars, strategyVars>>

AddOutcomeRun ==
    /\ backtest_pc = "input"
    /\ outcome_source = "ok"
    /\ Len(outcomes) <= OutputCap
    /\ \E o \in RunRows : outcomes' = outcomes \o [i \in 1..RunLength |-> o]
    /\ UNCHANGED <<outcome_source, result, backtest_pc>>
    /\ UNCHANGED <<batchVars, queryVars, cycleVars, gammaVars, scorerVars, strategyVars>>

\* evaluate_recommendations().
EvaluateRecommendations ==
    /\ backtest_pc = "input"
    /\ result' = Some(evaluate_recommendations(outcome_source, outcomes))
    /\ backtest_pc' = "returned"
    /\ UNCHANGED <<outcome_source, outcomes>>
    /\ UNCHANGED <<batchVars, queryVars, cycleVars, gammaVars, scorerVars, strategyVars>>

BacktestNext == AddOutcome \/ AddOutcomeRun \/ EvaluateRecommendations

SpecBacktest == BacktestInit /\ [][BacktestNext]_vars

----------------------------------------------------------------------------
(* Backtester: properties of evaluate_recommendations (SpecBacktest) *)

\* The call returned a report computed from a non-empty history.
Evaluated == backtest_pc = "returned" /\ outcome_source = "ok" /\ outcomes # <<>>

Report == result[1]

\* The positions of the outcomes of a direction; "NEUTRAL" stands for every
\* direction that is neither BULLISH nor BEARISH.
Positions(direction) ==
    { i \in DOMAIN outcomes :
          IF direction \in {"BULLISH", "BEARISH"}
          THEN outcomes[i].direction = direction
          ELSE outcomes[i].direction \notin {"BULLISH", "BEARISH"} }

\* The hit criterion of the claim.
Hit(o) ==
    \/ o.direction = "BULLISH" /\ o.return_pct > 0
    \/ o.direction = "BEARISH" /\ o.return_pct < 0
    \/ o.direction \notin {"BULLISH", "BEARISH"}
       /\ o.return_pct > -500 /\ o.return_pct < 500

Hits(direction) == { i \in Positions(direction) : Hit(outcomes[i]) }

\* The positions of the outcomes whose score is in lo..hi.
ScoredIn(lo, hi) == { i \in DOMAIN outcomes : outcomes[i].score \in lo..hi }

TierRanges ==
    [t \in {"80-100", "60-79", "40-59", "0-39"} |->
        CASE t = "80-100" -> <<80, 100>> [] t = "60-79" -> <<60, 79>>
          [] t = "40-59" -> <<40, 59>>   [] t = "0-39" -> <<0, 39>>]

TierPositions(t) == ScoredIn(TierRanges[t][1], TierRanges[t][2])

\* C15: an outcome counts as a hit iff its direction is BULLISH and
\* return_pct > 0, or BEARISH and return_pct < 0, or any other direction and
\* |return_pct| < 0.5; an outcome with return_pct 0 is a miss for BULLISH and
\* BEARISH and a hit for NEUTRAL.
C15_HitCriteria ==
    Evaluated =>
        /\ \A t \in DOMAIN TierRanges :
               Report.by_score_tier[t].correct =
                   Cardinality({ i \in TierPositions(t) : Hit(outcomes[i]) })
        /\ (Positions("BULLISH") # {} /\ Positions("BEARISH") = {}) =>
               (Report.accuracy.overall_hit_rate = 0 <=> Hits("BULLISH") = {})
        /\ (Positions("BEARISH") # {} /\ Positions("BULLISH") = {}) =>
               (Report.accuracy.overall_hit_rate = 0 <=> Hits("BEARISH") = {})

\* A BULLISH and a NEUTRAL outcome in the top tier, both with return_pct 0:
\* the tier counts two outcomes and one hit.
C15_Witness ==
    /\ Evaluated
    /\ outcomes = <<Outcome(80, "BULLISH", 0), Outcome(100, "NEUTRAL", 0)>>
    /\ Report.by_score_tier["80-100"].count = 2
    /\ Report.by_score_tier["80-100"].correct = 1
    /\ Report.accuracy.bullish_hit_rate = 0

\* rate (in tenths of a percent) is round(correct / total * 100, 1) when
\* total > 0, and 0 when total = 0.
IsRate(rate, correct, total) ==
    IF total > 0
    THEN 2 * rate * total >= 2000 * correct - total
         /\ 2 * rate * total <= 2000 * correct + total
    ELSE rate = 0

\* C16: for a non-empty outcome list, bullish_hit_rate, bearish_hit_rate and
\* overall_hit_rate equal round(correct / total * 100, 1) when their total is
\* > 0 and 0 when it is 0; the call divides by zero for no outcome list, one
\* of NEUTRAL outcomes only included.
C16_HitRates ==
    /\ (outcome_source = "ok" /\ outcomes # <<>> /\ backtest_pc # "input") => Evaluated
    /\ Evaluated =>
           LET bc == Cardinality(Hits("BULLISH"))
               bt == Cardinality(Positions("BULLISH"))
               ec == Cardinality(Hits("BEARISH"))
               et == Cardinality(Positions("BEARISH"))
           IN  /\ IsRate(Report.accuracy.bullish_hit_rate, bc, bt)
               /\ IsRate(Report.accuracy.bearish_hit_rate, ec, et)
               /\ IsRate(Report.accuracy.overall_hit_rate, bc + ec, bt + et)

\* 25 BULLISH hits after two BULLISH misses: 25/27 rounds up to 92.6.
C16_Witness ==
    /\ Evaluated
    /\ Cardinality(Positions("BULLISH")) = 27
    /\ Cardinality(Hits("BULLISH")) = 25
    /\ Positions("BEARISH") = {}
    /\ Report.accuracy.bullish_hit_rate = 926
    /\ Report.accuracy.bearish_hit_rate = 0

\* C17: for a non-empty outcome list, by_score_tier holds all four tiers
\* (80-100, 60-79, 40-59, 0-39) and every tier entry, one of a tier without
\* outcomes included, has the fields count, correct, avg_return and hit_rate.
C17_TierFields ==
    Evaluated =>
        /\ DOMAIN Report.by_score_tier = {"80-100", "60-79", "40-59", "0-39"}
        /\ \A t \in DOMAIN Report.by_score_tier :
               DOMAIN Report.by_score_tier[t] =
                   {"count", "correct", "avg_return", "hit_rate"}

\* C18: for an outcome list of length n the report's outcomes are the first
\* min(n, 50) outcomes while the statistics cover all n:
\* total_recommendations = n, each outcome is counted in exactly one score
\* tier (>= 80, 60-79, 40-59, < 40), and the tier counts sum to
\* n = bullish_total + bearish_total + neutral_total.
C18_CapAndStatistics ==
    (backtest_pc = "returned" /\ outcome_source = "ok") =>
        LET n == Len(outcomes)
        IN  /\ Report.total_recommendations = n
            /\ Len(Report.outcomes) = (IF n < 50 THEN n ELSE 50)
            /\ \A i \in DOMAIN Report.outcomes : Report.outcomes[i] = outcomes[i]
            /\ n > 0 =>
                   /\ \A t \in DOMAIN TierRanges :
                          Report.by_score_tier[t].count = Cardinality(TierPositions(t))
                   /\ Report.by_score_tier["80-100"].count
                      + Report.by_score_tier["60-79"].count
                      + Report.by_score_tier["40-59"].count
                      + Report.by_score_tier["0-39"].count = n
                   /\ Report.accuracy.bullish_total + Report.accuracy.bearish_total
                      + Report.accuracy.neutral_total = n

\* A history of 51 outcomes: 50 are returned, 51 are counted.
C18_Witness ==
    /\ Evaluated
    /\ Len(outcomes) = 51
    /\ Len(Report.outcomes) = 50
    /\ Report.total_recommendations = 51
    /\ Report.by_score_tier["80-100"].count + Report.by_score_tier["0-39"].count > 50

\* C19: evaluate_recommendations never raises when there is no outcome data:
\* for an empty history it returns total_recommendations 0 with an explicit
\* no-data message and no computed rates, and when the outcome provider fails
\* it returns total_recommendations 0 with an error field.
C19_NoData ==
    /\ backtest_pc # "raised"
    /\ (backtest_pc = "returned" /\ outcome_source = "ok" /\ outcomes = <<>>) =>
           /\ Report.total_recommendations = 0
           /\ "message" \in DOMAIN Report
           /\ "error" \notin DOMAIN Report
           /\ Report.accuracy = <<>>
    /\ (backtest_pc = "returned" /\ outcome_source = "fails") =>
           /\ Report.total_recommendations = 0
           /\ "error" \in DOMAIN Report

\* The call on an empty history has returned the no-data report.
C19_Witness ==
    /\ backtest_pc = "returned"
    /\ outcome_source = "ok"
    /\ outcomes = <<>>
    /\ Report.total_recommendations = 0
    /\ Report.message = "No recommendation data yet. Run the fetcher to generate history."

----------------------------------------------------------------------------
(* db/queries.py: get_historical_percentile and get_iv_percentile over the
   tables gamma_levels and snapshots.  A timestamp is an hour number (the
   code compares ISO strings, which order as the times do); a NULL column
   is None; implied_vol is in eighths, so that sums and equalities of
   averages are exact in doubles as well; a returned value is in
   thousandths. *)

\* The rows both tables hold together, at most.
MaxRows == 3

\* datetime.now(), as an hour number (line 182).
NowHour == 200

\* A row as save_gamma_snapshot writes it (db/storage.py 94-106): net_gex is
\* the sum of the two star values, a missing one counting 0.
GammaLevelRow(ticker, timestamp, price, max_pos_gex, max_neg_gex) ==
    [ticker |-> ticker, timestamp |-> timestamp, price |-> price,
     max_pos_gex |-> max_pos_gex, max_neg_gex |-> max_neg_gex,
     net_gex |-> Some((IF max_pos_gex = None THEN 0 ELSE max_pos_gex[1])
                      + (IF max_neg_gex = None THEN 0 ELSE max_neg_gex[1]))]

\* A row as save_snapshot writes it (db/storage.py 48-64).
SnapshotRow(ticker, timestamp, strike, underlying_price, implied_vol) ==
    [ticker |-> ticker, timestamp |-> timestamp, strike |-> strike,
     underlying_price |-> underlying_price, implied_vol |-> implied_vol]

\* get_connection() (db/models.py 32-34) runs one statement on the new
\* connection.
get_connection == <<"PRAGMA journal_mode=WAL">>

\* Line 185.
allowed == {"net_gex", "max_pos_gex", "max_neg_gex", "price"}

\* Lines 182, 262: the oldest timestamp of the lookback window.
cutoff(hours) == NowHour - hours

\* Lines 200, 281: too little history for a rank.
too_few_under_two(n) == n < 2
too_few(n) == n < 3

\* Lines 191-197: the values of the column of the ticker's rows in the window,
\* NULL excluded.  (ORDER BY only orders them; the code counts them.)
select_field(rows, ticker, field, hours) ==
    LET kept == SelectSeq(rows, LAMBDA r : /\ r.ticker = ticker
                                          /\ r.timestamp >= cutoff(hours)
                                          /\ r[field] # None)
    IN  [i \in DOMAIN kept |-> kept[i][field][1]]

\* Lines 167-206; returns the value and the statements executed.
get_historical_percentile(rows, ticker, field, current_value, hours) ==
    LET conn == get_connection
    IN  IF field \notin allowed
        THEN [value |-> 500, executed |-> conn]
        ELSE LET values == select_field(rows, ticker, field, hours)
                 stmts == Append(conn, "SELECT FROM gamma_levels")
             IN  IF too_few(Len(values))
                 THEN [value |-> 500, executed |-> stmts]
                 ELSE LET count_below ==
                              Cardinality({ i \in DOMAIN values : values[i] < current_value })
                      IN  [value |-> round_div(1000 * count_below, Len(values)),
                           executed |-> stmts]

\* Lines 271-273: the WHERE clause of the snapshot query.  A division by an
\* underlying_price of 0 is NULL in SQLite and the row is dropped.
near_the_money(r) ==
    /\ r.underlying_price # 0
    /\ IF r.underlying_price > 0
       THEN 20 * Abs(r.strike - r.underlying_price) < r.underlying_price
       ELSE TRUE

\* Lines 267-276: one row <<timestamp, sum, count>> per timestamp (avg_iv is
\* sum / count), ascending by timestamp.
RECURSIVE ascending(_)
ascending(stamps) ==
    IF stamps = {} THEN <<>>
    ELSE LET first == CHOOSE t \in stamps : \A u \in stamps : t <= u
         IN  <<first>> \o ascending(stamps \ {first})

select_avg_iv(rows, ticker, hours) ==
    LET kept == SelectSeq(rows, LAMBDA r : /\ r.ticker = ticker
                                          /\ r.timestamp >= cutoff(hours)
                                          /\ r.implied_vol > 0
                                          /\ near_the_money(r))
        stamps == ascending({ kept[i].timestamp : i \in DOMAIN kept })
        group(t) == SelectSeq(kept, LAMBDA r : r.timestamp = t)
    IN  [i \in DOMAIN stamps |->
            LET g == group(stamps[i])
            IN  <<stamps[i], SumSeq([j \in DOMAIN g |-> g[j].implied_vol]), Len(g)>>]

\* a.sum / a.count <= b.sum / b.count
avg_leq(a, b) == a[2] * b[3] <= b[2] * a[3]

\* Lines 253-296; returns the value and the statements executed.
get_iv_percentile(rows, ticker, hours) ==
    LET grouped == select_avg_iv(rows, ticker, hours)
        stmts == Append(get_connection, "SELECT FROM snapshots")
        iv_values == SelectSeq(grouped, LAMBDA g : g[2] # 0)
    IN  IF too_few(Len(grouped)) \/ iv_values = <<>>
        THEN [value |-> 500, executed |-> stmts]
        ELSE LET current_iv == iv_values[Len(iv_values)]
                 iv_min == iv_values[CHOOSE i \in DOMAIN iv_values :
                               \A j \in DOMAIN iv_values : avg_leq(iv_values[i], iv_values[j])]
                 iv_max == iv_values[CHOOSE i \in DOMAIN iv_values :
                               \A j \in DOMAIN iv_values : avg_leq(iv_values[j], iv_values[i])]
             IN  IF avg_leq(iv_max, iv_min)
                 THEN [value |-> 500, executed |-> stmts]
                 ELSE LET num == (current_iv[2] * iv_min[3] - iv_min[2] * current_iv[3])
                                     * iv_max[3]
                          den == (iv_max[2] * iv_min[3] - iv_min[2] * iv_max[3])
                                     * current_iv[3]
                          iv_rank == round_div(1000 * num, den)
                      IN  [value |-> Max(0, Min(1000, iv_rank)), executed |-> stmts]

\* The rows the fetch cycles may have stored.
GammaLevelRows ==
    { GammaLevelRow("A", 199, Some(50), Some(300), Some(-100)),
      GammaLevelRow("A", 100, Some(52), None,      Some(-300)),
      GammaLevelRow("A", 32,  Some(51), Some(200), None),
      GammaLevelRow("A", 31,  Some(49), Some(100), Some(-50)),
      GammaLevelRow("B", 198, Some(10), Some(10),  Some(-10)) }

SnapshotRows ==
    { SnapshotRow("A", 197, 100, 100, 2),
      SnapshotRow("A", 198, 100, 100, 7),
      SnapshotRow("A", 199, 102, 100, 4),
      SnapshotRow("A", 199, 100, 100, 6),
      SnapshotRow("A", 196, 105, 100, 4),
      SnapshotRow("A", 195, 100, 100, 0) }

\* The arguments of the calls.
FieldArguments == allowed \cup {"timestamp", "net_gex; DROP TABLE gamma_levels"}
ValueArguments == {-150, 51, 1000}
HoursArguments == {168, 2}

QueryInit ==
    /\ QueryIdle
    /\ BatchIdle /\ BacktestIdle /\ CycleIdle
    /\ GammaIdle /\ ScorerIdle /\ StrategyIdle

\* A fetch cycle stores a row.
InsertGammaLevel ==
    /\ query = None
    /\ Len(gamma_levels_rows) + Len(snapshots_rows) < MaxRows
    /\ \E r \in GammaLevelRows : gamma_levels_rows' = Append(gamma_levels_rows, r)
    /\ UNCHANGED <<snapshots_rows, query, returned, executed>>
    /\ UNCHANGED <<batchVars, backtestVars, cycleVars, gammaVars, scorerVars, strategyVars>>

InsertSnapshot ==
    /\ query = None
    /\ Len(gamma_levels_rows) + Len(snapshots_rows) < MaxRows
    /\ \E r \in SnapshotRows : snapshots_rows' = Append(snapshots_rows, r)
    /\ UNCHANGED <<gamma_levels_rows, query, returned, executed>>
    /\ UNCHANGED <<batchVars, backtestVars, cycleVars, gammaVars, scorerVars, strategyVars>>

\* get_historical_percentile("A", field, current_value, hours).
GetHistoricalPercentile ==
    /\ query = None
    /\ \E field \in FieldArguments, current_value \in ValueArguments,
          hours \in HoursArguments :
          LET answer == get_historical_percentile(gamma_levels_rows, "A", field,
                                                  current_value, hours)
          IN  /\ query' = Some([function |-> "get_historical_percentile",
                                ticker |-> "A", field |-> field,
                                current_value |-> current_value, hours |-> hours])
              /\ returned' = Some(answer.value)
              /\ executed' = answer.executed
    /\ UNCHANGED <<gamma_levels_rows, snapshots_rows>>
    /\ UNCHANGED <<batchVars, backtestVars, cycleVars, gammaVars, scorerVars, strategyVars>>

\* get_iv_percentile("A", hours).
GetIvPercentile ==
    /\ query = None
    /\ \E hours \in HoursArguments :
          LET answer == get_iv_percentile(snapshots_rows, "A", hours)
          IN  /\ query' = Some([function |-> "get_iv_percentile",
                                ticker |-> "A", hours |-> hours])
              /\ returned' = Some(answer.value)
              /\ executed' = answer.executed
    /\ UNCHANGED <<gamma_levels_rows, snapshots_rows>>
    /\ UNCHANGED <<batchVars, backtestVars, cycleVars, gammaVars, scorerVars, strategyVars>>

QueryNext ==
    InsertGammaLevel \/ InsertSnapshot \/ GetHistoricalPercentile \/ GetIvPercentile

SpecQueries == QueryInit /\ [][QueryNext]_vars

----------------------------------------------------------------------------
(* db/queries.py: properties of the percentile functions (SpecQueries) *)

\* The call made, once it has returned.
Asked == query[1]

\* The gamma_levels rows that qualify for the call: the ticker's rows in the
\* lookback window whose column is not NULL.
QualifyingLevels ==
    { i \in DOMAIN gamma_levels_rows :
          /\ gamma_levels_rows[i].ticker = Asked.ticker
          /\ NowHour - gamma_levels_rows[i].timestamp <= Asked.hours
          /\ gamma_levels_rows[i][Asked.field] # None }

\* The IV samples that qualify for the call: the timestamps in the lookback
\* window at which some near-the-money contract of the ticker has a positive
\* implied volatility.
QualifyingIvSamples ==
    { snapshots_rows[i].timestamp : i \in
        { j \in DOMAIN snapshots_rows :
              /\ snapshots_rows[j].ticker = Asked.ticker
              /\ NowHour - snapshots_rows[j].timestamp <= Asked.hours
              /\ snapshots_rows[j].implied_vol > 0
              /\ snapshots_rows[j].underlying_price > 0
              /\ 20 * (snapshots_rows[j].strike - snapshots_rows[j].underlying_price)
                     < snapshots_rows[j].underlying_price
              /\ 20 * (snapshots_rows[j].underlying_price - snapshots_rows[j].strike)
                     < snapshots_rows[j].underlying_price } }

\* C20: get_historical_percentile and get_iv_percentile return exactly 0.5
\* whenever fewer than 3 qualifying historical samples exist;
\* get_historical_percentile returns 0.5 without executing any query on the
\* tables when the field name is outside the allow-list {net_gex,
\* max_pos_gex, max_neg_gex, price} (the only statement is the journal-mode
\* PRAGMA of the connection); and in every other case the returned value lies
\* in [0, 1].
C20_NeutralPercentiles ==
    query # None =>
        /\ returned # None
        /\ returned[1] >= 0 /\ returned[1] <= 1000
        /\ Asked.function = "get_historical_percentile" =>
               IF Asked.field \in {"net_gex", "max_pos_gex", "max_neg_gex", "price"}
               THEN Cardinality(QualifyingLevels) < 3 => returned[1] = 500
               ELSE /\ returned[1] = 500
                    /\ \A i \in DOMAIN executed : executed[i] = "PRAGMA journal_mode=WAL"
        /\ Asked.function = "get_iv_percentile" =>
               (Cardinality(QualifyingIvSamples) < 3 => returned[1] = 500)

\* get_historical_percentile is asked for the column "timestamp" of a table
\* with three rows of the ticker: it answers 0.5 and has run no SELECT.
C20_Witness ==
    /\ query # None
    /\ Asked.function = "get_historical_percentile"
    /\ Asked.field = "timestamp"
    /\ Asked.hours = 168
    /\ Len(gamma_levels_rows) = 3
    /\ \A i \in DOMAIN gamma_levels_rows :
           gamma_levels_rows[i].ticker = "A" /\ gamma_levels_rows[i].timestamp >= 32
    /\ returned = Some(500)
    /\ executed = <<"PRAGMA journal_mode=WAL">>

----------------------------------------------------------------------------
(* Scorer: further properties of score_ticker (SpecScorer) *)

\* The contracts of the call that are in the ATM window and whose expiration
\* is missing or does not parse.
BadExpirations ==
    { i \in DOMAIN contracts :
          /\ in_window(contracts[i].Strike, arg_price(analytics), 95, 105)
          /\ contracts[i].Expiration \notin DOMAIN ExpirationDates }

\* The expiration 30 days after today.
ThirtyDaysOut == CHOOSE x \in DOMAIN ExpirationDates : ExpirationDates[x] - today = 30

\* The contracts of the call, each missing or malformed expiration replaced by
\* one 30 days out.
WithThirtyDays ==
    [i \in DOMAIN contracts |->
        IF contracts[i].Expiration \in DOMAIN ExpirationDates
        THEN contracts[i]
        ELSE [contracts[i] EXCEPT !.Expiration = ThirtyDaysOut]]

\* C22: in the P/C Skew and Volume/OI Surge sub-scorers a contract of the ATM
\* window whose expiration is missing or malformed is weighted like a contract
\* with 30 days to expiration (weight 1/sqrt(30)), not like a 1-day contract:
\* both sub-scores are those of the same chain with these expirations 30 days
\* out.
C22_BadExpirationWeighsThirtyDays ==
    (Scored /\ BadExpirations # {}) =>
        LET thirty == all_signals(WithThirtyDays, analytics, gamma_levels,
                                  historical_context, today)
        IN  /\ Signals[3].score = thirty[3].score
            /\ Signals[4].score = thirty[4].score

\* C23: when the IV rank of the historical context is None, score_ticker
\* completes without raising, the IV Rank sub-score is 0 with the detail
\* "No IV data available", and a Recommendation is returned.
C23_MissingIvRankScoresZero ==
    (score_pc # "input"
     /\ historical_context # None
     /\ "iv_rank" \in DOMAIN historical_context[1]
     /\ historical_context[1].iv_rank = None
     /\ ~raises_in_gex_regime(gamma_levels, historical_context)) =>
        /\ score_pc = "scored"
        /\ rec # None
        /\ Signals[5].score = 0
        /\ Signals[5].detail = "No IV data available"

\* The DTE-weighted open interest of one type over the ATM window (+-5% of
\* the price), 0 when the call has no price.
AtmOi(type) ==
    IF arg_price(analytics) > 0
    THEN weighted_oi(contracts, arg_price(analytics), today, type)
    ELSE 0

\* The put/call ratio exceeds 1.2 (with put OI and no call OI it is 999), and
\* the ratio is below 0.83.
RatioAbove ==
    \/ AtmOi("CALL") = 0 /\ AtmOi("PUT") > 0
    \/ AtmOi("CALL") > 0 /\ 100 * AtmOi("PUT") > 120 * AtmOi("CALL")
RatioBelow == AtmOi("CALL") > 0 /\ 100 * AtmOi("PUT") < 83 * AtmOi("CALL")

\* The net delta of the strikes within +-10% of the price, 0 without a price
\* or strikes.
NetDelta ==
    IF analytics = None \/ arg_price(analytics) <= 0 THEN 0
    ELSE LET strikes == analytics[1].strikes
             near == { k \in DOMAIN strikes : in_window(k, arg_price(analytics), 90, 110) }
             RECURSIVE total(_)
             total(ks) == IF ks = {} THEN 0
                          ELSE LET k == CHOOSE x \in ks : TRUE
                               IN  strikes[k].total_delta + total(ks \ {k})
         IN  total(near)

\* score_ticker reached its strategy lookup.
LookedUp == score_pc # "input" /\ strategy # None

\* C24: the skew handed to the strategy lookup is "bearish" whenever the
\* DTE-weighted ATM put/call OI ratio exceeds 1.2 (the no-call-OI case
\* included) or the net delta within +-10% of spot is negative, even if the
\* other signal is bullish; otherwise it is "bullish" when the ratio is below
\* 0.83 or the net delta is positive; otherwise it is "neutral".
C24_SkewBearishFirst ==
    LookedUp =>
        strategy_key[3] = (IF RatioAbove \/ NetDelta < 0 THEN "bearish"
                           ELSE IF RatioBelow \/ NetDelta > 0 THEN "bullish"
                           ELSE "neutral")

\* A call-heavy chain with a negative net delta: the skew is bearish.
C24_Witness ==
    /\ Scored
    /\ RatioBelow
    /\ NetDelta < 0
    /\ strategy_key[3] = "bearish"

\* A wall is set and within 3% of the price.
WithinThree(strike) ==
    /\ arg_price(analytics) > 0
    /\ strike # None /\ strike[1] # 0
    /\ 100 * (arg_price(analytics) - strike[1]) <= 3 * arg_price(analytics)
    /\ 100 * (strike[1] - arg_price(analytics)) <= 3 * arg_price(analytics)

\* C25: wall_position is "near_call_wall" whenever price > 0 and the price is
\* within 3% of the call wall, also when the put wall is within 3% too or is
\* closer; "near_put_wall" only when the call wall is not within 3% but the
\* put wall is; and "mid_range" otherwise (a missing price and absent walls
\* included).
C25_CallWallFirst ==
    LookedUp =>
        strategy_key[2] =
            (IF WithinThree(arg_pos_strike(gamma_levels)) THEN "near_call_wall"
             ELSE IF WithinThree(arg_neg_strike(gamma_levels)) THEN "near_put_wall"
             ELSE "mid_range")

\* Both walls are within 3% and the put wall is the closer one: the position
\* is near_call_wall.
C25_Witness ==
    /\ Scored
    /\ WithinThree(arg_pos_strike(gamma_levels))
    /\ WithinThree(arg_neg_strike(gamma_levels))
    /\ Abs(arg_price(analytics) - arg_neg_strike(gamma_levels)[1])
           < Abs(arg_price(analytics) - arg_pos_strike(gamma_levels)[1])
    /\ strategy_key[2] = "near_call_wall"

\* The direction that corresponds to a value of the skew axis.
SkewAxis == [bullish |-> "BULLISH", bearish |-> "BEARISH", neutral |-> "NEUTRAL"]

\* C28: for every entry of the strategy table with GEX regime "negative" the
\* direction equals the skew axis whatever the wall position, and for every
\* entry with regime "positive" and wall position "mid_range" the strategy is
\* a NEUTRAL Iron Condor whatever the skew; hence a Recommendation with
\* non-negative net GEX and no wall within 3% is never directional.
C28_RegimeDecidesDirection ==
    /\ \A key \in DOMAIN STRATEGY_MAP :
           LET found == get_strategy(key[1], key[2], key[3])
           IN  /\ key[1] = "negative" => found.direction = SkewAxis[key[3]]
               /\ (key[1] = "positive" /\ key[2] = "mid_range") =>
                      found.play_type = "Iron Condor" /\ found.direction = "NEUTRAL"
    /\ \A wall \in {"near_call_wall", "near_put_wall", "mid_range"},
          skew \in DOMAIN SkewAxis :
           /\ <<"negative", wall, skew>> \in DOMAIN STRATEGY_MAP
           /\ <<"positive", "mid_range", skew>> \in DOMAIN STRATEGY_MAP
    /\ (Scored /\ arg_net_gex(gamma_levels) >= 0
        /\ ~WithinThree(arg_pos_strike(gamma_levels))
        /\ ~WithinThree(arg_neg_strike(gamma_levels))) =>
           /\ rec[1].direction = "NEUTRAL"
           /\ rec[1].play_type = "Iron Condor"

\* A put-heavy chain with positive net GEX and both walls 10% away: the
\* Recommendation is a NEUTRAL Iron Condor.
C28_Witness ==
    /\ Scored
    /\ arg_net_gex(gamma_levels) >= 0
    /\ arg_pos_strike(gamma_levels) # None /\ arg_neg_strike(gamma_levels) # None
    /\ ~WithinThree(arg_pos_strike(gamma_levels))
    /\ ~WithinThree(arg_neg_strike(gamma_levels))
    /\ strategy_key = <<"positive", "mid_range", "bearish">>
    /\ rec[1].direction = "NEUTRAL"

----------------------------------------------------------------------------
(* Scorer: further properties of score_all_tickers (SpecBatch) *)

\* The batch reduced to the data of ticker t: its contracts, its analytics
\* entry, its gamma-level entry and its historical answers (every other ticker
\* has no rows).
OwnContracts(t) == SelectSeq(all_contracts, LAMBDA c : c.Symbol = t)
OwnAnalytics(t) == [k \in DOMAIN analytics_data \cap {t} |-> analytics_data[k]]
OwnLevels(t) == [k \in DOMAIN levels_data \cap {t} |-> levels_data[k]]
OwnHistory(t) == [k \in DOMAIN history_db |-> IF k = t THEN history_db[k] ELSE NoHistory]

\* What score_all_tickers returns when t is alone in the batch.
Alone(t) ==
    score_all_tickers(OwnContracts(t), OwnAnalytics(t), OwnLevels(t),
                      OwnHistory(t), today)

\* What the loop produces when it runs over the tickers in descending order.
Backwards ==
    LET order == sorted_tickers(BatchSymbols)
        down  == [i \in DOMAIN order |-> order[Len(order) + 1 - i]]
    IN  score_each(down, all_contracts, analytics_data, levels_data,
                   history_db, today)

\* The score, signals, direction and play type of the Recommendations of t.
Essence(recs, t) ==
    LET own == SelectSeq(recs, LAMBDA r : r.ticker = t)
    IN  [i \in DOMAIN own |->
            <<own[i].score, own[i].signals, own[i].direction, own[i].play_type>>]

\* C26: the Recommendation score_all_tickers produces for a ticker T depends
\* only on T's own contracts, analytics entry, gamma-level entry and
\* historical context: with the data of the other tickers removed, or the
\* tickers processed in another order, T's score, signals, direction and play
\* type are the same.
C26_TickersIndependent ==
    BatchReturned =>
        LET backwards == Backwards
        IN  \A t \in BatchSymbols :
                /\ Essence(recommendations, t) = Essence(Alone(t), t)
                /\ Essence(recommendations, t) = Essence(backwards, t)

\* A batch of three tickers or more in which A and B, with different data,
\* get different Recommendations.
C26_Witness ==
    /\ BatchReturned
    /\ Cardinality(BatchSymbols) >= 3
    /\ Len(recommendations) >= 3
    /\ \E i, j \in DOMAIN recommendations :
           /\ recommendations[i].ticker = "A" /\ recommendations[j].ticker = "B"
           /\ recommendations[i].score # recommendations[j].score
           /\ recommendations[i].direction # recommendations[j].direction

\* C27: in every Recommendation produced through score_all_tickers the Skew
\* Momentum sub-score is 0 or 1 (the no-history value int(0.2 * 5)), because
\* the context built per ticker never holds a previous P/C ratio; so no total
\* score of a batch exceeds 96.
C27_NoSkewHistoryInBatch ==
    BatchReturned =>
        /\ \A t \in DOMAIN hist_ctx : hist_ctx[t].previous_pc_ratio = None
        /\ \A i \in DOMAIN recommendations :
               /\ recommendations[i].signals[8].name = "Skew Momentum"
               /\ recommendations[i].signals[8].score \in {0, 1}
               /\ recommendations[i].score <= 96

\* A batch in which a ticker with ATM open interest scores 1 and a ticker
\* without contracts scores 0.
C27_Witness ==
    /\ BatchReturned
    /\ \E i, j \in DOMAIN recommendations :
           /\ recommendations[i].signals[8].score = 1
           /\ recommendations[i].signals[8].detail = "no history for trend"
           /\ recommendations[j].signals[8].score = 0

----------------------------------------------------------------------------
(* Fetch cycle: continuous_fetcher.py, fetch_all_tickers, with the tables
   it writes (db/storage.py), the alert checks (alerts/detector.py) and the
   queries the scorer and the backtester make (db/queries.py).  Prices and
   strikes are in dollars, implied_vol in eighths, Delta in thousandths. *)

\* The fetch cycles of a run of the model.
MaxCycles == 3

\* config.py line 32: database.retention_days = 30, in hours.
RetentionHours == 720

\* A contract as fetch_option_data delivers it.
FetchedContract(sym, spot, strike, exp, gamma, delta, iv, oi, vol, type) ==
    [Symbol |-> sym, UnderlyingPrice |-> spot, Strike |-> strike,
     Expiration |-> exp, Gamma |-> gamma, Delta |-> delta, ImpliedVol |-> iv,
     OpenInterest |-> oi, Volume |-> vol, Type |-> type]

\* db/storage.py 14-76: save_snapshot appends one row per contract, all with
\* one timestamp; nothing for an empty list.
save_snapshot(rows, cs, timestamp) ==
    rows \o [i \in DOMAIN cs |->
                SnapshotRow(cs[i].Symbol, timestamp, cs[i].Strike,
                            cs[i].UnderlyingPrice, cs[i].ImpliedVol)]

\* db/storage.py 180-209: prune_old_data deletes the rows of a table older
\* than the retention period.
prune_old_data(rows, now) ==
    SelectSeq(rows, LAMBDA r : ~(r.timestamp < now - RetentionHours))

\* The keys of compute_star_levels' result, in insertion order: a ticker is
\* inserted when its first contract with a spot is met.
RECURSIVE first_seen(_, _)
first_seen(cs, n) ==
    IF n = 0 THEN <<>>
    ELSE LET before == first_seen(cs, n - 1)
             c == cs[n]
         IN  IF c.Symbol = "" \/ c.UnderlyingPrice = 0 \/ c.Symbol \in Range(before)
             THEN before
             ELSE Append(before, c.Symbol)

\* db/storage.py 79-121: save_gamma_snapshot appends one row per ticker of
\* gamma_data, all with one timestamp; nothing for an empty dict.
save_gamma_snapshot_skipped(rows, items, gd, timestamp) == rows
save_gamma_snapshot(rows, items, gd, timestamp) ==
    rows \o [i \in DOMAIN items |->
                LET data == gd[items[i]]
                IN  GammaLevelRow(items[i], timestamp, Some(data.price),
                                  Some(data.max_positive_gamma_value),
                                  Some(data.max_negative_gamma_value))]

\* db/storage.py 138-177: save_recommendation_log appends one row per
\* recommendation, all with one timestamp; nothing for an empty list.
\* agent/scorer.py 732-740 builds the entries from the recommendations.
save_recommendation_log_latest(log, recs, timestamp) ==
    [i \in DOMAIN recs |->
        [timestamp |-> timestamp, ticker |-> recs[i].ticker,
         score |-> recs[i].score, direction |-> recs[i].direction,
         play_type |-> recs[i].play_type,
         price_at_score |-> recs[i].price_at_score,
         net_gex |-> recs[i].net_gex_value, iv_rank |-> recs[i].iv_rank_value]]
save_recommendation_log(log, recs, timestamp) ==
    log \o [i \in DOMAIN recs |->
               [timestamp |-> timestamp, ticker |-> recs[i].ticker,
                score |-> recs[i].score, direction |-> recs[i].direction,
                play_type |-> recs[i].play_type,
                price_at_score |-> recs[i].price_at_score,
                net_gex |-> recs[i].net_gex_value, iv_rank |-> recs[i].iv_rank_value]]

\* The rows of a table as a query run at hour now sees them: the queries
\* above are written for datetime.now() = NowHour.
at_now(rows, now) ==
    [i \in DOMAIN rows |-> [rows[i] EXCEPT !.timestamp = @ - now + NowHour]]

\* db/queries.py 63-82: get_gamma_history, the ticker's rows of the window
\* by ascending timestamp (the table is filled in that order).
get_gamma_history(rows, ticker, now, hours) ==
    SelectSeq(rows, LAMBDA r : r.ticker = ticker /\ r.timestamp >= now - hours)

\* row.get('net_gex', 0) or 0
net_gex_or_0(r) == IF r.net_gex = None THEN 0 ELSE r.net_gex[1]

\* db/queries.py 209-250: get_signal_momentum; gex_trend in thousandths.
get_signal_momentum(rows, ticker, now, hours) ==
    LET rs == get_gamma_history(rows, ticker, now, hours)
    IN  IF Len(rs) < 2
        THEN [gex_trend |-> 0, gex_samples |-> Len(rs), gex_start |-> 0, gex_end |-> 0]
        ELSE LET gex_start == net_gex_or_0(rs[1])
                 gex_end == net_gex_or_0(rs[Len(rs)])
                 gex_trend ==
                     IF gex_start = 0
                     THEN IF gex_end > 0 THEN 1000
                          ELSE IF gex_end < 0 THEN -1000 ELSE 0
                     ELSE Max(-1000, Min(1000,
                              round_div(1000 * (gex_end - gex_start), Abs(gex_start))))
             IN  [gex_trend |-> gex_trend, gex_samples |-> Len(rs),
                  gex_start |-> gex_start, gex_end |-> gex_end]

\* agent/scorer.py 647-663: what the queries of _fetch_historical_context
\* answer for the ticker at hour now.
history_answer(gl_rows, snap_rows, ticker, now) ==
    LET history == get_gamma_history(gl_rows, ticker, now, 1)
        current_gex == net_gex_or_0(history[Len(history)])
    IN  HistoryAnswer("none", history # <<>>,
            IF history # <<>>
            THEN get_historical_percentile(at_now(gl_rows, now), ticker, "net_gex",
                                           Abs(current_gex), 168).value
            ELSE 500,
            get_signal_momentum(gl_rows, ticker, now, 4),
            get_iv_percentile(at_now(snap_rows, now), ticker, 168).value)

\* db/queries.py 299-339: get_recommendation_outcomes.  The log is filled by
\* ascending timestamp; ORDER BY timestamp DESC returns the latest batch
\* first.  current_price is the price of the ticker's latest gamma_levels
\* row, 0 when it has none.
latest_price(gl_rows, ticker) ==
    LET rs == SelectSeq(gl_rows, LAMBDA r : r.ticker = ticker)
    IN  IF rs = <<>> \/ rs[Len(rs)].price = None THEN 0 ELSE rs[Len(rs)].price[1]

RECURSIVE timestamp_desc(_)
timestamp_desc(rows) ==
    IF rows = <<>> THEN <<>>
    ELSE LET latest == rows[Len(rows)].timestamp
         IN  SelectSeq(rows, LAMBDA r : r.timestamp = latest)
             \o timestamp_desc(SelectSeq(rows, LAMBDA r : r.timestamp # latest))

get_recommendation_outcomes(log, gl_rows, now, hours) ==
    LET kept == timestamp_desc(SelectSeq(log, LAMBDA r :
                    r.timestamp >= now - hours /\ r.price_at_score > 0))
    IN  [i \in DOMAIN kept |->
            LET current_price == latest_price(gl_rows, kept[i].ticker)
                price_at_score == kept[i].price_at_score
            IN  Outcome(kept[i].score, kept[i].direction,
                        IF price_at_score > 0 /\ current_price > 0
                        THEN round_div(100000 * (current_price - price_at_score),
                                       price_at_score)
                        ELSE 0)]

\* alerts/detector.py 15-22: an Alert (its details text is left out).
Alert(ticker, alert_type, severity, message) ==
    [ticker |-> ticker, alert_type |-> alert_type, severity |-> severity,
     message |-> message]

\* alerts/detector.py 25-51: detect_gex_flip; either net GEX may be None.
detect_gex_flip_any_change(ticker, current_net_gex, previous_net_gex) ==
    IF previous_net_gex = None \/ current_net_gex = None THEN None
    ELSE IF previous_net_gex[1] >= 0 /\ current_net_gex[1] < 0
    THEN Some(Alert(ticker, "gex_flip", "critical", "GEX flipped NEGATIVE"))
    ELSE IF previous_net_gex[1] <= 0 /\ current_net_gex[1] > 0
    THEN Some(Alert(ticker, "gex_flip", "warning", "GEX flipped POSITIVE"))
    ELSE None
detect_gex_flip(ticker, current_net_gex, previous_net_gex) ==
    IF previous_net_gex = None \/ current_net_gex = None THEN None
    ELSE IF previous_net_gex[1] > 0 /\ current_net_gex[1] < 0
    THEN Some(Alert(ticker, "gex_flip", "critical", "GEX flipped NEGATIVE"))
    ELSE IF previous_net_gex[1] < 0 /\ current_net_gex[1] > 0
    THEN Some(Alert(ticker, "gex_flip", "warning", "GEX flipped POSITIVE"))
    ELSE None

\* alerts/detector.py 54-86: detect_new_max_strike.
detect_new_max_strike(ticker, current_pos_strike, current_neg_strike, previous_pos_strike, previous_neg_strike) ==
    (IF /\ current_pos_strike # None /\ previous_pos_strike # None
        /\ current_pos_strike # previous_pos_strike
     THEN <<Alert(ticker, "new_max_strike", "info", "Call wall shifted")>>
     ELSE <<>>)
    \o
    (IF /\ current_neg_strike # None /\ previous_neg_strike # None
        /\ current_neg_strike # previous_neg_strike
     THEN <<Alert(ticker, "new_max_strike", "info", "Put wall shifted")>>
     ELSE <<>>)

\* alerts/detector.py 89-126: detect_price_near_wall; threshold_pct in
\* percent.  abs(price - strike) / price * 100 <= threshold_pct, price > 0.
within_threshold(price, strike, threshold_pct) ==
    /\ strike # None
    /\ strike[1] > 0
    /\ 100 * Abs(price - strike[1]) <= threshold_pct * price

detect_price_near_wall(ticker, price, pos_strike, neg_strike, threshold_pct) ==
    IF price <= 0 THEN <<>>
    ELSE (IF within_threshold(price, pos_strike, threshold_pct)
          THEN <<Alert(ticker, "price_near_wall", "warning", "near call wall")>>
          ELSE <<>>)
         \o
         (IF within_threshold(price, neg_strike, threshold_pct)
          THEN <<Alert(ticker, "price_near_wall", "warning", "near put wall")>>
          ELSE <<>>)

\* alerts/detector.py 150-177: the alerts of one ticker of current_data.
\* previous is {} for a ticker the previous data does not hold, and for
\* previous data that is None.
ticker_checks(ticker, current, previous_data, cfg) ==
    LET previous == IF previous_data # None /\ ticker \in DOMAIN previous_data[1]
                    THEN Some(previous_data[1][ticker]) ELSE None
        cur_net_gex == current.max_positive_gamma_value
                       + current.max_negative_gamma_value
        prev_net_gex == IF previous # None
                        THEN Some(previous[1].max_positive_gamma_value
                                  + previous[1].max_negative_gamma_value)
                        ELSE None
        prev_pos == IF previous # None THEN previous[1].max_positive_gamma_strike
                    ELSE None
        prev_neg == IF previous # None THEN previous[1].max_negative_gamma_strike
                    ELSE None
    IN  (IF cfg.gex_flip
         THEN detect_gex_flip(ticker, Some(cur_net_gex), prev_net_gex)
         ELSE <<>>)
        \o
        (IF cfg.new_max_gamma_strike
         THEN detect_new_max_strike(ticker, current.max_positive_gamma_strike,
                                    current.max_negative_gamma_strike,
                                    prev_pos, prev_neg)
         ELSE <<>>)
        \o
        detect_price_near_wall(ticker, current.price,
                               current.max_positive_gamma_strike,
                               current.max_negative_gamma_strike,
                               cfg.price_near_gamma_wall_pct)

\* alerts/detector.py 180-182: the stable sort by severity.
by_severity(all_alerts) ==
    SelectSeq(all_alerts, LAMBDA a : a.severity = "critical")
    \o SelectSeq(all_alerts, LAMBDA a : a.severity = "warning")
    \o SelectSeq(all_alerts, LAMBDA a : a.severity = "info")

\* alerts/detector.py 129-189: run_all_checks over current_data.items().
RECURSIVE checks_of(_, _, _, _, _)
checks_of(items, n, current_data, previous_data, cfg) ==
    IF n = 0 THEN <<>>
    ELSE checks_of(items, n - 1, current_data, previous_data, cfg)
         \o ticker_checks(items[n], current_data[items[n]], previous_data, cfg)

run_all_checks(items, current_data, previous_data, cfg) ==
    by_severity(checks_of(items, Len(items), current_data, previous_data, cfg))

\* alerts/notifier.py 71-100 and db/storage.py 124-135: dispatch_alerts saves
\* every alert to alert_history.
dispatch_alerts(rows, sent, timestamp) ==
    rows \o [i \in DOMAIN sent |->
                [timestamp |-> timestamp, ticker |-> sent[i].ticker,
                 alert_type |-> sent[i].alert_type, message |-> sent[i].message]]

\* continuous_fetcher.py 219-244: the analytics dict built from the raw
\* contracts; a strike's total_delta is the sum of Delta * OpenInterest.
analytics_of(cs) ==
    [t \in { c.Symbol : c \in { x \in Range(cs) : x.Symbol # "" } } |->
        LET tcs == SelectSeq(cs, LAMBDA c : c.Symbol = t)
        IN  AnalyticsEntry(Analytics(tcs[1].UnderlyingPrice,
                [k \in { tcs[i].Strike : i \in DOMAIN tcs } |->
                    LET ks == SelectSeq(tcs, LAMBDA c : c.Strike = k)
                    IN  Delta(SumSeq([i \in DOMAIN ks |->
                                         ks[i].Delta * ks[i].OpenInterest]))]))]

\* What a cycle fetches: the contracts of all tickers, whether run_extraction
\* returns or raises, and the hours since the previous cycle.
Fetch(cs, extraction, hours) ==
    [contracts |-> cs, extraction |-> extraction, hours |-> hours]

\* Ticker A with a net GEX above 0, below 0 and of exactly 0; ticker B is
\* fetched in the first chain only.
ChainUp ==
    << FetchedContract("A", 100, 103, "2026-07-19", 1, 600, 2, 5, 6, "CALL"),
       FetchedContract("A", 100, 97,  "2026-07-19", 1, -400, 3, 2, 1, "PUT"),
       FetchedContract("B", 50,  50,  "2026-07-19", 1, 500, 4, 3, 2, "CALL") >>
ChainDown ==
    << FetchedContract("A", 98, 103, "2026-07-19", 1, 300, 5, 2, 1, "CALL"),
       FetchedContract("A", 98, 97,  "2026-07-19", 1, -500, 6, 6, 9, "PUT") >>
ChainFlat ==
    << FetchedContract("A", 100, 103, "2026-07-19", 1, 500, 4, 4, 1, "CALL"),
       FetchedContract("A", 100, 97,  "2026-07-19", 1, -500, 4, 4, 1, "PUT") >>

CycleFetches ==
    { Fetch(ChainUp, "ok", 3),
      Fetch(ChainDown, "ok", 3),
      Fetch(ChainFlat, "ok", 3),
      Fetch(<<>>, "ok", 3),              \* every ticker's fetch failed
      Fetch(ChainUp, "raises", 3),       \* option_data.js cannot be read back
      Fetch(ChainDown, "ok", 1000) }     \* the fetcher was down for six weeks

\* cfg.alerts of the run: the defaults, the GEX flip check switched off, and
\* alerting switched off.
AlertsConfigs ==
    { [enabled |-> TRUE, gex_flip |-> TRUE, new_max_gamma_strike |-> TRUE,
       price_near_gamma_wall_pct |-> 1],
      [enabled |-> TRUE, gex_flip |-> FALSE, new_max_gamma_strike |-> TRUE,
       price_near_gamma_wall_pct |-> 1],
      [enabled |-> FALSE, gex_flip |-> TRUE, new_max_gamma_strike |-> TRUE,
       price_near_gamma_wall_pct |-> 1] }

CycleInit ==
    /\ alerts_cfg \in AlertsConfigs
    /\ clock = 0
    /\ previous_gamma_data = None
    /\ alerts = <<>>
    /\ alert_history = <<>>
    /\ recommendation_log = <<>>
    /\ cycle_pc = "sleep"
    /\ cycles = 0
    /\ BatchIdle /\ BacktestIdle /\ QueryIdle
    /\ GammaIdle /\ ScorerIdle /\ StrategyIdle

\* fetch_all_tickers, lines 261-331: the fetch, _run_historical_storage
\* (save_snapshot, then prune_old_data) and run_extraction.
FetchAllTickers ==
    /\ cycle_pc = "sleep"
    /\ cycles < MaxCycles
    /\ \E f \in CycleFetches :
           LET now == clock + f.hours
           IN  /\ clock' = now
               /\ all_contracts' = f.contracts
               /\ snapshots_rows' =
                      prune_old_data(save_snapshot(snapshots_rows, f.contracts, now), now)
               /\ gamma_levels_rows' = prune_old_data(gamma_levels_rows, now)
               /\ alert_history' = prune_old_data(alert_history, now)
               /\ gamma_data' = IF f.extraction = "ok"
                                THEN compute_star_levels(f.contracts) ELSE <<>>
    /\ alerts' = <<>>
    /\ cycles' = cycles + 1
    /\ cycle_pc' = "extracted"
    /\ UNCHANGED <<alerts_cfg, previous_gamma_data, recommendation_log>>
    /\ UNCHANGED <<option_data, cell_gex, gamma_pc>>
    /\ UNCHANGED <<analytics_data, levels_data, history_db, hist_ctx,
                   recommendations, batch_pc>>
    /\ UNCHANGED <<query, returned, executed>>
    /\ UNCHANGED <<backtestVars, scorerVars, strategyVars>>

\* fetch_all_tickers, lines 333-335, and _run_alert_checks, lines 179-210.
RunAlertChecks ==
    /\ cycle_pc = "extracted"
    /\ IF gamma_data # <<>> /\ alerts_cfg.enabled
       THEN LET items == first_seen(all_contracts, Len(all_contracts))
                found == run_all_checks(items, gamma_data, previous_gamma_data,
                                        alerts_cfg)
            IN  /\ gamma_levels_rows' =
                       save_gamma_snapshot(gamma_levels_rows, items, gamma_data, clock)
                /\ alerts' = found
                /\ alert_history' = dispatch_alerts(alert_history, found, clock)
                /\ previous_gamma_data' = Some(gamma_data)
       ELSE UNCHANGED <<gamma_levels_rows, alerts, alert_history, previous_gamma_data>>
    /\ cycle_pc' = "checked"
    /\ UNCHANGED <<alerts_cfg, clock, recommendation_log, cycles>>
    /\ UNCHANGED <<snapshots_rows, query, returned, executed>>
    /\ UNCHANGED <<batchVars, backtestVars, gammaVars, scorerVars, strategyVars>>

\* fetch_all_tickers, line 338, and _run_recommendations, lines 213-249:
\* score_all_tickers(all_data, analytics, gamma_data or {}), then
\* save_recommendations.
RunRecommendations ==
    /\ cycle_pc = "checked"
    /\ LET ad == analytics_of(all_contracts)
           gd == [t \in DOMAIN gamma_data |-> Some(gamma_data[t])]
           db == [t \in all_tickers(all_contracts, ad, gd) |->
                     history_answer(gamma_levels_rows, snapshots_rows, t, clock)]
           recs == score_all_tickers(all_contracts, ad, gd, db, clock \div 24)
       IN  /\ analytics_data' = ad
           /\ levels_data' = gd
           /\ history_db' = db
           /\ hist_ctx' = [t \in DOMAIN db |-> fetch_historical_context(db[t])]
           /\ recommendations' = recs
           /\ recommendation_log' =
                  save_recommendation_log(recommendation_log, recs, clock)
    /\ batch_pc' = "returned"
    /\ cycle_pc' = "sleep"
    /\ UNCHANGED all_contracts
    /\ UNCHANGED <<alerts_cfg, clock, previous_gamma_data, alerts, alert_history, cycles>>
    /\ UNCHANGED <<backtestVars, queryVars, gammaVars, scorerVars, strategyVars>>

\* api_server.py 232-233: a request for the backtest report, at any moment
\* of a cycle: evaluate_recommendations over get_recommendation_outcomes.
\* The server's startup (lines 274-281) has created the tables.
RequestBacktest ==
    /\ outcomes' = get_recommendation_outcomes(recommendation_log,
                                               gamma_levels_rows, clock, 24)
    /\ result' = Some(evaluate_recommendations(outcome_source, outcomes'))
    /\ backtest_pc' = "returned"
    /\ UNCHANGED outcome_source
    /\ UNCHANGED <<batchVars, queryVars, cycleVars, gammaVars, scorerVars, strategyVars>>

CycleNext ==
    FetchAllTickers \/ RunAlertChecks \/ RunRecommendations \/ RequestBacktest

SpecCycle == CycleInit /\ [][CycleNext]_vars

----------------------------------------------------------------------------
(* Fetch cycle: properties (SpecCycle) *)

\* The steps of a cycle.
AlertStep == cycle_pc = "extracted" /\ cycle_pc' = "checked"
ScoringStep == cycle_pc = "checked" /\ cycle_pc' = "sleep"

\* The entries a step adds at the end of a table.
Added(before, after) == SubSeq(after, Len(before) + 1, Len(after))

\* C21: the recommendation log is append-only.  Every step leaves the entries
\* the log holds where they are and as they are; the step that scores a
\* cycle's tickers appends one entry per recommendation, in their order, all
\* with the cycle's timestamp; every other step - the storage step with
\* prune_old_data, the alert checks, a backtest evaluation - leaves the log
\* as it is.
C21_LogAppendOnly ==
    [][/\ Len(recommendation_log') >= Len(recommendation_log)
       /\ SubSeq(recommendation_log', 1, Len(recommendation_log)) = recommendation_log
       /\ IF ScoringStep
          THEN LET added == Added(recommendation_log, recommendation_log')
               IN  /\ Len(added) = Len(recommendations')
                   /\ \A i \in DOMAIN added :
                          /\ added[i].timestamp = clock
                          /\ added[i].ticker = recommendations'[i].ticker
                          /\ added[i].score = recommendations'[i].score
                          /\ added[i].direction = recommendations'[i].direction
                          /\ added[i].play_type = recommendations'[i].play_type
          ELSE recommendation_log' = recommendation_log]_vars

\* A log with an entry older than the retention period, kept while the
\* snapshots of its cycle were pruned, a later entry, and a backtest report
\* made from the log.
C21_Witness ==
    /\ Len(recommendation_log) >= 2
    /\ recommendation_log[1].timestamp < clock - RetentionHours
    /\ recommendation_log[Len(recommendation_log)].timestamp = clock
    /\ snapshots_rows # <<>>
    /\ \A i \in DOMAIN snapshots_rows :
           snapshots_rows[i].timestamp > recommendation_log[1].timestamp
    /\ result # None
    /\ result[1].total_recommendations >= 1

\* A ticker's net GEX: the sum of its two wall values.
NetGex(levels) == levels.max_positive_gamma_value + levels.max_negative_gamma_value

\* The gex_flip alerts a list holds for a ticker.
FlipAlerts(found, t) ==
    SelectSeq(found, LAMBDA a : a.ticker = t /\ a.alert_type = "gex_flip")

\* The step runs the alert checks of the cycle (its gamma data is not empty
\* and alerting is enabled).
CheckedStep == AlertStep /\ gamma_data # <<>> /\ alerts_cfg.enabled

CycleLevels(rows) ==
    /\ Len(rows) = Cardinality(DOMAIN gamma_data)
    /\ \A t \in DOMAIN gamma_data :
           \E i \in DOMAIN rows :
               /\ rows[i].ticker = t
               /\ rows[i].timestamp = clock
               /\ rows[i].net_gex = Some(NetGex(gamma_data[t]))

\* The recommendation of a ticker in a returned list.
RecOf(recs, t) == recs[CHOOSE i \in DOMAIN recs : recs[i].ticker = t]

\* C29: rows are added to the gamma-level history by the alert step only,
\* and only with alerting enabled and gamma data that is not empty; then the
\* step adds the cycle's levels, so they are in the history when the scoring
\* step reads it and every ticker of the gamma data is scored with a
\* momentum that counts the cycle's own sample.  With alerting disabled the
\* history is empty and stays empty, and a cycle scored over an empty history
\* gives every ticker the percentile 0.5 and a momentum without samples
\* (trend 0, 0 samples), which scores as no momentum at all.
C29_LevelsStoredBeforeScoring ==
    [][/\ Len(gamma_levels_rows') > Len(gamma_levels_rows) =>
              AlertStep /\ alerts_cfg.enabled /\ gamma_data # <<>>
       /\ CheckedStep =>
              /\ SubSeq(gamma_levels_rows', 1, Len(gamma_levels_rows)) = gamma_levels_rows
              /\ CycleLevels(Added(gamma_levels_rows, gamma_levels_rows'))
       /\ ~alerts_cfg.enabled => gamma_levels_rows = <<>> /\ gamma_levels_rows' = <<>>
       /\ ScoringStep =>
              /\ gamma_levels_rows' = gamma_levels_rows
              /\ (alerts_cfg.enabled /\ gamma_data # <<>>) =>
                     /\ Len(gamma_levels_rows) >= Cardinality(DOMAIN gamma_data)
                     /\ CycleLevels(SubSeq(gamma_levels_rows,
                            Len(gamma_levels_rows) - Cardinality(DOMAIN gamma_data) + 1,
                            Len(gamma_levels_rows)))
                     /\ \A t \in DOMAIN gamma_data :
                            hist_ctx'[t].momentum.gex_samples >= 1
              /\ gamma_levels_rows = <<>> =>
                     \A t \in DOMAIN hist_ctx' :
                         /\ hist_ctx'[t].gex_percentile = Some(500)
                         /\ hist_ctx'[t].momentum.gex_samples = 0
                         /\ hist_ctx'[t].momentum.gex_trend = 0
                         /\ RecOf(recommendations', t).signals[7] =
                                score_gex_momentum(<<>>, WEIGHTS.gex_momentum)]_vars

\* Alerting is disabled: after the second cycle the history is empty, the
\* snapshots are not, and ticker A was scored without any sample.
C29_Witness ==
    /\ ~alerts_cfg.enabled
    /\ cycles = 2
    /\ cycle_pc = "sleep"
    /\ gamma_data # <<>>
    /\ gamma_levels_rows = <<>>
    /\ Len(snapshots_rows) >= 4
    /\ Len(recommendation_log) >= 2
    /\ hist_ctx["A"].gex_percentile = Some(500)
    /\ hist_ctx["A"].momentum.gex_samples = 0

====
